---- MODULE Spec2Model ----
(***************************************************************************)
(* Verification model of the ParkLookup data pipeline.                     *)
(*                                                                         *)
(*   Spec        the regulation-priority converter                         *)
(*               (backend/pipeline_blockface.py, convert_with_regulations) *)
(*   SpecSimple  the simple converter                                      *)
(*               (convert_geojson_with_regulations.py)                     *)
(*   SpecExtract the field normalizer's extract_regulation, both versions  *)
(*   SpecSplit   the cross-zone overlap split of the zone deriver          *)
(*               (backend/transformers/parking_transformer.py)             *)
(*   SpecDerive  the zone deriver from the blockface records to the zones  *)
(*               it returns (derive_zones_from_blockface, same file)       *)
(*   SpecSide    determine_side_of_line on one centerline and test line    *)
(*   SpecTime    parse_time_to_format on one clock string                  *)
(*   SpecDispatch  extract_regulation_from_props on one record             *)
(*   SpecValidate  the validator (backend/validators/data_validator.py)    *)
(*   SpecPipeline  the stages of one ETL run (backend/pipeline.py, run)    *)
(*   SpecFetch   fetch_with_retry (backend/fetchers/base_fetcher.py)       *)
(*   SpecScheduler  the scheduler loop and its signal handler              *)
(*               (backend/scheduler.py)                                    *)
(*                                                                         *)
(* Coordinates are integers in micro-degrees (1 unit = 0.000001 degree),   *)
(* relative to the south-west corner of BOUNDS.  Line geometries are       *)
(* axis-aligned two-point segments, which keeps projection, interpolation  *)
(* and distance exact in integer arithmetic.                               *)
(***************************************************************************)
EXTENDS Integers, Sequences, FiniteSets, TLC

VARIABLES
    features,               \* blockfaces_data['features'] of the blockface file
    sources,                \* features of the regulation, sweeping and metered files
    bounds_filter,          \* the bounds_filter argument
    tree_order,             \* order in which the spatial index returns its hits
    SHAPELY_AVAILABLE,      \* zone deriver: shapely could be imported
    SCIPY_AVAILABLE,        \* zone deriver: scipy could be imported
    raw_blockfaces,         \* zone deriver: the blockface records given
    side_centerline,        \* determine_side_of_line: the centerline given
    side_test_line,         \* determine_side_of_line: the test line given
    pc,                     \* position of the run
    all_regulations,        \* loaded source records, in load order
    skipped,                \* source features skipped by the loaders
    blockface_objects,      \* first-pass objects, regulations appended in place
    skipped_invalid,
    skipped_out_of_bounds,
    reg_idx,                \* loop index of the matching pass
    regulations_matched,
    regulations_unmatched,
    attached,               \* per loaded record: the blockfaces it was attached to
    blockfaces,             \* emitted output of the current run
    run,                    \* number of the current run over the same input
    outputs,                \* emitted outputs of the completed runs
    feat_idx,               \* simple converter: loop index over the features
    ex_props,               \* field normalizer: the properties given
    ex_out,                 \* field normalizer: the regulations extracted
    split_run,              \* zone cleanup: number of the current run
    last_split,             \* zone cleanup: the pair the loop has just handled
    split_results,          \* zone cleanup: input and result of the completed runs
    zones,                  \* zone deriver: polygons of every zone
    pair_idx,               \* zone deriver: position in the pair loop
    modified,               \* zone deriver: modified polygons
    zpc,                    \* zone deriver: position of the derivation
    areas_polygons,         \* zone deriver: (polygon, all areas) collected per area
    areas,                  \* zone deriver, hull method: points collected per area
    side_offset,            \* determine_side_of_line: the tangent offset used
    side_of_line,           \* determine_side_of_line: the side returned
    clock_str,              \* parse_time_to_format: the clock string given
    clock_out,              \* parse_time_to_format: the string returned
    app_data,               \* validator: the bundle given
    valid_pc,               \* validator: position of validate_app_data
    validation,             \* validator: the ValidationResult of the call
    etl_pc,                 \* ETL pipeline: position of the run
    etl_written,            \* ETL pipeline: output files written, in order
    etl_ios,                \* ETL pipeline: what the iOS export did
    etl_result,             \* ETL pipeline: value returned by run
    fetch_pc,               \* fetcher: position of fetch_with_retry
    fetch_attempt,          \* fetcher: the loop variable attempt
    fetch_errors,           \* fetcher: the client errors caught, in order
    fetch_requests,         \* fetcher: number of requests issued
    fetch_waits,            \* fetcher: the waits slept, in order
    fetch_outcome,          \* fetcher: the response returned or the error raised
    sched_pc,               \* scheduler: position of run_scheduler
    shutdown_requested,     \* scheduler: the flag the signal handler sets
    sleep_count,            \* scheduler: turns taken of the loop over range(60)
    runs_started,           \* scheduler: pipeline runs started
    runs_after_signal,      \* scheduler: pipeline runs started with the flag set
    sleeps_after_signal      \* scheduler: sleeps ended with the flag set

inputVars == <<features, sources, bounds_filter, tree_order,
               SHAPELY_AVAILABLE, SCIPY_AVAILABLE, raw_blockfaces,
               side_centerline, side_test_line>>
runVars == <<pc, all_regulations, skipped, blockface_objects, skipped_invalid,
             skipped_out_of_bounds, reg_idx, regulations_matched,
             regulations_unmatched, attached, blockfaces, run, outputs>>
simpleVars == <<feat_idx>>
extractVars == <<ex_props, ex_out>>
collectVars == <<areas_polygons, areas>>
zoneVars == <<zones, pair_idx, modified, zpc, split_run, last_split, split_results,
              collectVars>>
sideVars == <<side_offset, side_of_line>>
coreVars == <<inputVars, runVars, simpleVars, extractVars, zoneVars, sideVars>>
timeVars == <<clock_str, clock_out>>
validVars == <<app_data, valid_pc, validation>>
etlVars == <<etl_pc, etl_written, etl_ios, etl_result>>
fetchVars == <<fetch_pc, fetch_attempt, fetch_errors, fetch_requests, fetch_waits,
               fetch_outcome>>
schedVars == <<sched_pc, shutdown_requested, sleep_count, runs_started,
               runs_after_signal, sleeps_after_signal>>
otherVars == <<timeVars, validVars, etlVars, fetchVars, schedVars>>
vars == <<coreVars, otherVars>>

----------------------------------------------------------------------------
(* Bounds of the model.                                                    *)
MaxBlockfaces == 2
MaxRecords == 2
MaxRuns == 2

(* Python's None, per value type; Absent is a dictionary key that is not set. *)
None == "None"
NoneInt == -1
NoneList == <<>>
Absent == "Absent"

Min(a, b) == IF a < b THEN a ELSE b
Max(a, b) == IF a > b THEN a ELSE b
Abs(a) == IF a < 0 THEN -a ELSE a
Range(s) == {s[i] : i \in DOMAIN s}
SeqsUpTo(S, n) == UNION {[1..k -> S] : k \in 1..n}

----------------------------------------------------------------------------
(* Geometry: shapely LineString restricted to axis-aligned segments.        *)

Pt(x, y) == <<x, y>>
Line(x1, y1, x2, y2) == [a |-> Pt(x1, y1), b |-> Pt(x2, y2)]

\* LineString.length
Length(l) == Abs(l.b[1] - l.a[1]) + Abs(l.b[2] - l.a[2])

\* Unit direction of a segment (one of the four axis directions).
Sgn(v) == IF v > 0 THEN 1 ELSE IF v < 0 THEN -1 ELSE 0
Dir(l) == <<Sgn(l.b[1] - l.a[1]), Sgn(l.b[2] - l.a[2])>>

\* LineString.interpolate(d): the point at distance d along the line, clamped.
Interpolate(l, d) ==
    LET t == Max(0, Min(d, Length(l)))
    IN  Pt(l.a[1] + t * Dir(l)[1], l.a[2] + t * Dir(l)[2])

\* LineString.interpolate(0.5, normalized=True)
MidPoint(l) == Pt((l.a[1] + l.b[1]) \div 2, (l.a[2] + l.b[2]) \div 2)

\* LineString.project(p): distance along the line of the point nearest to p.
Project(l, p) ==
    LET t == (p[1] - l.a[1]) * Dir(l)[1] + (p[2] - l.a[2]) * Dir(l)[2]
    IN  Max(0, Min(t, Length(l)))

\* Gap between two closed intervals.
Gap(lo1, hi1, lo2, hi2) == Max(0, Max(lo1 - hi2, lo2 - hi1))

\* geometry.distance(other), squared (the order of distances is the order of
\* their squares).
Dist2(l, m) ==
    LET gx == Gap(Min(l.a[1], l.b[1]), Max(l.a[1], l.b[1]),
                  Min(m.a[1], m.b[1]), Max(m.a[1], m.b[1]))
        gy == Gap(Min(l.a[2], l.b[2]), Max(l.a[2], l.b[2]),
                  Min(m.a[2], m.b[2]), Max(m.a[2], m.b[2]))
    IN  gx * gx + gy * gy

\* geom.buffer(d).intersects(other): the other geometry comes within d.
BufferIntersects(l, d, m) == Dist2(l, m) <= d * d

----------------------------------------------------------------------------
(* Side determination (pipeline_blockface.py).                              *)

\* offset = min(total_length * 0.05, 0.00001); threshold = 1e-8 (degrees^2).
TangentDivisor == 20
MaxTangentOffset == 10
CrossThreshold == 10000

TangentOffset(total_length) ==
    Min(total_length \div TangentDivisor, MaxTangentOffset)

CrossProduct(centerline, test_line) ==
    LET test_midpoint == MidPoint(test_line)
        closest_point == Interpolate(centerline, Project(centerline, test_midpoint))
        distance_along == Project(centerline, closest_point)
        total_length == Length(centerline)
        offset == TangentOffset(total_length)
        p1 == IF distance_along < offset
                THEN Interpolate(centerline, 0)
                ELSE IF distance_along > total_length - offset
                       THEN Interpolate(centerline, total_length - offset * 2)
                       ELSE Interpolate(centerline, distance_along - offset)
        p2 == IF distance_along < offset
                THEN Interpolate(centerline, offset * 2)
                ELSE IF distance_along > total_length - offset
                       THEN Interpolate(centerline, total_length)
                       ELSE Interpolate(centerline, distance_along + offset)
        dx == p2[1] - p1[1]
        dy == p2[2] - p1[2]
        tx == test_midpoint[1] - closest_point[1]
        ty == test_midpoint[2] - closest_point[2]
    IN  dx * ty - dy * tx

determine_side_of_line(centerline, test_line) ==
    LET cross == CrossProduct(centerline, test_line)
    IN  IF cross > CrossThreshold THEN "LEFT"
        ELSE IF cross < -CrossThreshold THEN "RIGHT"
        ELSE "UNKNOWN"

\* Lines 653-674.  First a variant that maps the cardinal sides as well,
\* then the mapping of the code.
blockface_side_to_left_rightCardinal(side) ==
    IF side \in {"ODD", "WEST", "NORTH"} THEN "LEFT"
    ELSE IF side \in {"EVEN", "EAST", "SOUTH"} THEN "RIGHT"
    ELSE "UNKNOWN"

blockface_side_to_left_right(side) ==
    IF side = "ODD" THEN "LEFT"
    ELSE IF side = "EVEN" THEN "RIGHT"
    ELSE "UNKNOWN"

\* Lines 879-884: the candidate is skipped because of its side.
SideFilterDiscards(bf_side, bf_geometry, reg_geom) ==
    LET bf_lr_side == blockface_side_to_left_right(bf_side)
    IN  /\ bf_lr_side # "UNKNOWN"
        /\ determine_side_of_line(bf_geometry, reg_geom) # "UNKNOWN"
        /\ determine_side_of_line(bf_geometry, reg_geom) # bf_lr_side

----------------------------------------------------------------------------
(* Popup text.  A popupinfo string is a sequence of tokens; the separators  *)
(* " between ", " and " and ", " are tokens of their own.                   *)

RECURSIVE IndexOf(_, _, _)
IndexOf(s, tok, i) ==
    IF i > Len(s) THEN 0 ELSE IF s[i] = tok THEN i ELSE IndexOf(s, tok, i + 1)

\* str.split(sep)
RECURSIVE SplitOn(_, _)
SplitOn(s, sep) ==
    LET i == IndexOf(s, sep, 1)
    IN  IF i = 0 THEN <<s>>
        ELSE <<SubSeq(s, 1, i - 1)>> \o SplitOn(SubSeq(s, i + 1, Len(s)), sep)

\* str.lower() on the side phrase tokens.
LowerToken(t) ==
    CASE t = "West Side" -> "west side"
      [] t = "East Side" -> "east side"
      [] OTHER -> t

Contains(popupinfo, phrase) ==
    \E i \in DOMAIN popupinfo : LowerToken(popupinfo[i]) = phrase

\* pipeline_blockface.py: cardinal directions are returned as they are.
parse_side_from_popupinfo(popupinfo) ==
    IF popupinfo = <<>> THEN "UNKNOWN"
    ELSE IF Contains(popupinfo, "north side") THEN "NORTH"
    ELSE IF Contains(popupinfo, "south side") THEN "SOUTH"
    ELSE IF Contains(popupinfo, "east side") THEN "EAST"
    ELSE IF Contains(popupinfo, "west side") THEN "WEST"
    ELSE "UNKNOWN"

\* convert_geojson_with_regulations.py: west/east become EVEN/ODD.
simple_parse_side_from_popupinfo(popupinfo) ==
    IF popupinfo = <<>> THEN "UNKNOWN"
    ELSE IF Contains(popupinfo, "west side") THEN "EVEN"
    ELSE IF Contains(popupinfo, "east side") THEN "ODD"
    ELSE IF Contains(popupinfo, "north side") THEN "NORTH"
    ELSE IF Contains(popupinfo, "south side") THEN "SOUTH"
    ELSE "UNKNOWN"

UnknownStreet == <<"Unknown Street">>
Unknown == <<"Unknown">>

parse_street_info(popupinfo) ==
    LET fallback ==
            [street |-> SplitOn(popupinfo, ", ")[1], from |-> Unknown, to |-> Unknown]
        parts == SplitOn(popupinfo, " between ")
        rest == SplitOn(parts[2], ", ")[1]
        from_to == SplitOn(rest, " and ")
    IN  IF popupinfo = <<>>
          THEN [street |-> UnknownStreet, from |-> Unknown, to |-> Unknown]
        ELSE IF /\ IndexOf(popupinfo, " between ", 1) # 0
                /\ IndexOf(popupinfo, " and ", 1) # 0
                /\ Len(parts) = 2
                /\ Len(from_to) = 2
          THEN [street |-> parts[1], from |-> from_to[1], to |-> from_to[2]]
        ELSE fallback

----------------------------------------------------------------------------
(* Field normalizer.                                                        *)
(*                                                                          *)
(* A properties dictionary is a record over all the field names the code    *)
(* reads; a key that is not set holds Absent (strings), NoneInt (numbers)   *)
(* or the empty sequence (digit strings, token strings, week flags).        *)

\* str.strip() and str.lower() on the regulation categories and the permit
\* zones of the data set.
Strip(t) ==
    CASE t = "Pay or Permit " -> "Pay or Permit"
      [] t = " Time limited" -> "Time limited"
      [] t = " R" -> "R"
      [] t = " " -> ""
      [] OTHER -> t

Lower(t) ==
    CASE t = "Pay or Permit" -> "pay or permit"
      [] t = "Pay or Permit " -> "pay or permit "
      [] t = "PAY OR PERMIT" -> "pay or permit"
      [] t = "Time limited" -> "time limited"
      [] t = " Time limited" -> " time limited"
      [] t = "Time Limited" -> "time limited"
      [] t = "No parking any time" -> "no parking any time"
      [] t = "Residential permit" -> "residential permit"
      [] t = "Residential permit area" -> "residential permit area"
      [] t = "Street cleaning" -> "street cleaning"
      [] t = "Street Sweeping" -> "street sweeping"
      [] t = "RPP" -> "rpp"
      [] t = "Parking" -> "parking"
      [] OTHER -> t

IsSet(v) == v \notin {Absent, None, ""}

map_regulation_type(regulation) ==
    LET r == Lower(Strip(regulation))
    IN  IF ~IsSet(regulation) THEN "other"
        ELSE CASE r = "time limited" -> "timeLimit"
               [] r = "residential permit" -> "residentialPermit"
               [] r = "no parking any time" -> "noParking"
               [] r = "no parking anytime" -> "noParking"
               [] r = "street cleaning" -> "streetCleaning"
               [] r = "metered parking" -> "metered"
               [] r = "pay or permit" -> "metered"
               [] r = "tow-away zone" -> "towAway"
               [] r = "tow away" -> "towAway"
               [] r = "loading zone" -> "loadingZone"
               [] r = "no oversized vehicles" -> "other"
               [] OTHER -> "other"

AllWeek == <<"monday", "tuesday", "wednesday", "thursday", "friday",
             "saturday", "sunday">>

\* str.upper() on the day codes.
UpperToken(t) ==
    CASE t = "Daily" -> "DAILY"
      [] t = "M-Su" -> "M-SU"
      [] t = "M-Sa" -> "M-SA"
      [] t = "Tu" -> "TU"
      [] t = "Th" -> "TH"
      [] t = "Sa" -> "SA"
      [] t = "Su" -> "SU"
      [] OTHER -> t

DayOfCode(code) ==
    CASE code = "M" -> <<"monday">>
      [] code = "TU" -> <<"tuesday">>
      [] code = "W" -> <<"wednesday">>
      [] code = "TH" -> <<"thursday">>
      [] code = "F" -> <<"friday">>
      [] code = "SA" -> <<"saturday">>
      [] code = "SU" -> <<"sunday">>
      [] OTHER -> <<>>

RECURSIVE DayCodes(_)
DayCodes(tokens) ==
    IF tokens = <<>> THEN <<>>
    ELSE DayOfCode(UpperToken(tokens[1])) \o DayCodes(Tail(tokens))

\* A days string is a sequence of tokens, "/" and " " being tokens of their
\* own; None and "" are the empty sequence; the result None is NoneList.
parse_days_to_array(days_str) ==
    IF days_str = <<>> THEN NoneList
    ELSE IF Len(days_str) = 1 /\ UpperToken(days_str[1]) \in {"DAILY", "M-SU"}
      THEN AllWeek
    ELSE IF Len(days_str) = 1 /\ UpperToken(days_str[1]) = "M-F"
      THEN SubSeq(AllWeek, 1, 5)
    ELSE IF Len(days_str) = 1 /\ UpperToken(days_str[1]) = "M-SA"
      THEN SubSeq(AllWeek, 1, 6)
    ELSE DayCodes(days_str)

RECURSIVE DigitsToInt(_)
DigitsToInt(ds) ==
    IF ds = <<>> THEN 0 ELSE 10 * DigitsToInt(SubSeq(ds, 1, Len(ds) - 1)) + ds[Len(ds)]

\* A clock string is a sequence of decimal digits; the result "HH:MM" is the
\* pair <<hours, minutes>> and None is NoneList.
\* First a variant that leaves the hour 24 as it is.
parse_time_keeping_24(time_str) ==
    LET padded == IF Len(time_str) <= 2
                    THEN (IF Len(time_str) = 1 THEN <<0>> ELSE <<>>) \o time_str \o <<0, 0>>
                    ELSE IF Len(time_str) = 3 THEN <<0>> \o time_str ELSE time_str
        hours == DigitsToInt(SubSeq(padded, 1, Len(padded) - 2))
        minutes == DigitsToInt(SubSeq(padded, Len(padded) - 1, Len(padded)))
    IN  IF time_str = <<>> THEN NoneList
        ELSE <<hours, minutes>>

parse_time_to_format(time_str) ==
    LET padded == IF Len(time_str) <= 2
                    THEN (IF Len(time_str) = 1 THEN <<0>> ELSE <<>>) \o time_str \o <<0, 0>>
                    ELSE IF Len(time_str) = 3 THEN <<0>> \o time_str ELSE time_str
        hours == DigitsToInt(SubSeq(padded, 1, Len(padded) - 2))
        minutes == DigitsToInt(SubSeq(padded, Len(padded) - 1, Len(padded)))
    IN  IF time_str = <<>> THEN NoneList
        ELSE <<IF hours >= 24 THEN 0 ELSE hours, minutes>>

\* Lines 303-308: the non-blank rpparea1..3 values, stripped, in field order.
PermitZonesOf(reg_props) ==
    LET z(v) == IF IsSet(v) /\ Strip(v) # "" THEN <<Strip(v)>> ELSE <<>>
    IN  z(reg_props.rpparea1) \o z(reg_props.rpparea2) \o z(reg_props.rpparea3)

\* Lines 310-318: hrlimit is a whole number of hours, NoneInt when not set.
TimeLimitOf(reg_props) ==
    IF reg_props.hrlimit = NoneInt THEN NoneInt ELSE reg_props.hrlimit * 60

Conditions(exceptions) == IF IsSet(exceptions) THEN <<exceptions>> ELSE NoneList

Regulation(type, permitZone, permitZones, timeLimit, days, start, end, special, source) ==
    [type |-> type, permitZone |-> permitZone, permitZones |-> permitZones,
     timeLimit |-> timeLimit, meterRate |-> NoneInt, enforcementDays |-> days,
     enforcementStart |-> start, enforcementEnd |-> end,
     specialConditions |-> special, _sourceStreet |-> source]

\* pipeline_blockface.py, extract_regulation.
extract_regulation(reg_props) ==
    LET regulation_type_raw == IF IsSet(reg_props.regulation) THEN reg_props.regulation ELSE ""
        regulation_type == map_regulation_type(regulation_type_raw)
        days == parse_days_to_array(reg_props.days)
        enforcement_start == parse_time_to_format(reg_props.hrs_begin)
        enforcement_end == parse_time_to_format(reg_props.hrs_end)
        permit_zones == PermitZonesOf(reg_props)
        time_limit == TimeLimitOf(reg_props)
        exceptions == reg_props.exceptions
        first_zone == IF permit_zones # <<>> THEN permit_zones[1] ELSE None
        permit(special) ==
            Regulation("residentialPermit", first_zone, permit_zones, NoneInt,
                       days, enforcement_start, enforcement_end, special, Absent)
    IN  IF Lower(regulation_type_raw) = "pay or permit"
          THEN <<Regulation("metered", None, NoneList, time_limit, days,
                            enforcement_start, enforcement_end,
                            Conditions(exceptions), Absent),
                 permit(Conditions(exceptions))>>
        ELSE IF regulation_type = "timeLimit" /\ permit_zones # <<>>
          THEN <<Regulation("timeLimit", None, NoneList, time_limit, days,
                            enforcement_start, enforcement_end,
                            Conditions(exceptions), Absent),
                 permit(<<"Exempt from time limits">> \o Conditions(exceptions))>>
        ELSE <<Regulation(regulation_type, first_zone, permit_zones, time_limit,
                          days, enforcement_start, enforcement_end,
                          Conditions(exceptions), Absent)>>

\* convert_geojson_with_regulations.py, extract_regulation: one
\* residentialPermit entry per permit zone, no permitZones field.
RECURSIVE PermitPerZone(_, _, _, _, _)
PermitPerZone(zs, days, start, end, special) ==
    IF zs = <<>> THEN <<>>
    ELSE <<Regulation("residentialPermit", zs[1], NoneList, NoneInt, days,
                      start, end, special, Absent)>>
         \o PermitPerZone(Tail(zs), days, start, end, special)

simple_extract_regulation(reg_props) ==
    LET regulation_type_raw == IF IsSet(reg_props.regulation) THEN reg_props.regulation ELSE ""
        regulation_type == map_regulation_type(regulation_type_raw)
        days == parse_days_to_array(reg_props.days)
        enforcement_start == parse_time_to_format(reg_props.hrs_begin)
        enforcement_end == parse_time_to_format(reg_props.hrs_end)
        permit_zones == PermitZonesOf(reg_props)
        time_limit == TimeLimitOf(reg_props)
        exceptions == reg_props.exceptions
    IN  IF Lower(regulation_type_raw) = "pay or permit"
          THEN <<Regulation("metered", None, NoneList, time_limit, days,
                            enforcement_start, enforcement_end,
                            Conditions(exceptions), Absent)>>
               \o PermitPerZone(permit_zones, days, enforcement_start,
                                enforcement_end, Conditions(exceptions))
        ELSE IF regulation_type = "timeLimit" /\ permit_zones # <<>>
          THEN <<Regulation("timeLimit", None, NoneList, time_limit, days,
                            enforcement_start, enforcement_end,
                            Conditions(exceptions), Absent)>>
               \o PermitPerZone(permit_zones, days, enforcement_start,
                                enforcement_end,
                                <<"Exempt from time limits">> \o Conditions(exceptions))
        ELSE <<Regulation(regulation_type,
                          IF permit_zones # <<>> THEN permit_zones[1] ELSE None,
                          NoneList, time_limit, days, enforcement_start,
                          enforcement_end, Conditions(exceptions), Absent)>>

\* week1..week5 flags to the condition text.
WeekNames == <<"1st", "2nd", "3rd", "4th", "5th">>

parse_week_pattern(props) ==
    LET weeks == IF props.weeks = <<>> THEN <<0, 0, 0, 0, 0>> ELSE props.weeks
        active == {i \in 1..5 : weeks[i] = 1}
        names == [i \in 1..5 |-> IF i \in active THEN <<WeekNames[i]>> ELSE <<>>]
    IN  IF active = 1..5 THEN <<"Street cleaning every week">>
        ELSE IF active = {} THEN <<"Street cleaning (schedule TBD)">>
        ELSE IF active \in {{1, 3}, {1, 3, 5}} THEN <<"Street cleaning on odd weeks">>
        ELSE IF active = {2, 4} THEN <<"Street cleaning on even weeks">>
        ELSE <<"Street cleaning">> \o names[1] \o names[2] \o names[3]
             \o names[4] \o names[5] \o <<"week of month">>

\* weekday.strip().lower(), then the first abbreviation it starts with.
WeekdayName(weekday) ==
    CASE weekday \in {"Mon", "Monday"} -> "monday"
      [] weekday \in {"Tues", "Tue", "Tuesday"} -> "tuesday"
      [] weekday \in {"Wed", "Wednesday"} -> "wednesday"
      [] weekday \in {"Thu", "Thurs", "Thursday"} -> "thursday"
      [] weekday \in {"Fri", "Friday"} -> "friday"
      [] weekday \in {"Sat", "Saturday"} -> "saturday"
      [] weekday \in {"Sun", "Sunday"} -> "sunday"
      [] weekday = "Holiday" -> "holiday"
      [] weekday = Absent -> ""
      [] OTHER -> weekday

extract_street_sweeping(props) ==
    LET weekday == WeekdayName(props.weekday)
        fromhour == IF props.fromhour = NoneInt THEN 0 ELSE props.fromhour
        tohour == IF props.tohour = NoneInt THEN 0 ELSE props.tohour
        corridor == IF props.corridor = Absent THEN "" ELSE props.corridor
    IN  Regulation("streetCleaning", None, NoneList, NoneInt,
                   IF weekday # "" THEN <<weekday>> ELSE NoneList,
                   <<fromhour, 0>>, <<tohour, 0>>, parse_week_pattern(props),
                   IF corridor # "" THEN corridor ELSE None)

extract_metered_regulation(props) ==
    Regulation("metered", None, NoneList, NoneInt, AllWeek, <<9, 0>>, <<18, 0>>,
               <<"Metered parking - rates vary by location and time">>, Absent)

\* Dispatch on the marker fields.
\* First a variant that tests the sweeping fields before the metered marker.
dispatch_sweeping_first(props) ==
    IF props.weekday # Absent /\ props.fromhour # NoneInt
      THEN <<extract_street_sweeping(props)>>
    ELSE IF props._is_metered THEN <<extract_metered_regulation(props)>>
    ELSE extract_regulation(props)

extract_regulation_from_props(props) ==
    IF props._is_metered THEN <<extract_metered_regulation(props)>>
    ELSE IF props.weekday # Absent /\ props.fromhour # NoneInt
      THEN <<extract_street_sweeping(props)>>
    ELSE extract_regulation(props)

----------------------------------------------------------------------------
(* Input data.                                                              *)

\* BOUNDS (Mission District), relative to its south-west corner.
BoundsMinLon == 0
BoundsMaxLon == 19000
BoundsMinLat == 0
BoundsMaxLat == 36000

\* BUFFER_DISTANCE of the two converters.
BUFFER_DISTANCE == 135
SIMPLE_BUFFER_DISTANCE == 100

\* Two parallel centerlines 100 units apart, a north-south centerline, and a
\* centerline outside the bounds.
H0 == Line(1000, 1000, 3000, 1000)
H1 == Line(1000, 1100, 3000, 1100)
V0 == Line(4000, 1000, 4000, 3000)
OutOfBounds == Line(25000, 1000, 27000, 1000)

Popup(street, from, to, side) ==
    <<street, " between ", from, " and ", to, ", ", side>>

Feature(gtype, geometry, popupinfo) ==
    [gtype |-> gtype, geometry |-> geometry, popupinfo |-> popupinfo]

FeatureCatalogue ==
    { Feature("LineString", H0, Popup("A Street", "1st St", "2nd St", "south side")),
      Feature("LineString", H1, Popup("A Street", "1st St", "2nd St", "north side")),
      Feature("LineString", H1, <<>>),
      Feature("LineString", V0, Popup("B Street", "3rd St", "4th St", "West Side")),
      Feature("MultiLineString", H0, Popup("A Street", "1st St", "2nd St", "south side")),
      Feature("LineString", OutOfBounds, Popup("C Street", "5th St", "6th St", "east side")),
      \* "geometry": null, which GeoJSON allows for a feature without location
      Feature(None, <<>>, Popup("A Street", "1st St", "2nd St", "south side")) }

NoProps ==
    [_is_metered |-> FALSE, weekday |-> Absent, fromhour |-> NoneInt,
     tohour |-> NoneInt, weeks |-> <<>>, corridor |-> Absent,
     regulation |-> Absent, days |-> <<>>, hrs_begin |-> <<>>, hrs_end |-> <<>>,
     hrlimit |-> NoneInt, rpparea1 |-> Absent, rpparea2 |-> Absent,
     rpparea3 |-> Absent, exceptions |-> Absent]

RegProps(regulation, hrlimit, rpparea1, rpparea2) ==
    [NoProps EXCEPT !.regulation = regulation, !.days = <<"M-F">>,
                    !.hrs_begin = <<9, 0, 0>>, !.hrs_end = <<1, 8, 0, 0>>,
                    !.hrlimit = hrlimit, !.rpparea1 = rpparea1,
                    !.rpparea2 = rpparea2]

SweepProps(weekday, corridor) ==
    [NoProps EXCEPT !.weekday = weekday, !.fromhour = 6, !.tohour = 8,
                    !.weeks = <<1, 1, 1, 1, 1>>, !.corridor = corridor]

Source(file, gtype, geom, props) ==
    [file |-> file, gtype |-> gtype, geom |-> geom, props |-> props]

\* Record geometries: between H0 and H1 at equal distance; nearer to H0;
\* crossing H1 from the north; south of H0; west of V0; far from everything.
Between == Line(1400, 1050, 2600, 1050)
NearH0 == Line(1400, 1030, 2600, 1030)
FromNorth == Line(2000, 1040, 2000, 2640)
FromSouth == Line(2000, 960, 2000, -640)
WestOfV0 == Line(2360, 2000, 3960, 2000)
FarAway == Line(9000, 9000, 9400, 9000)

SourceCatalogue ==
    { Source("regulations", "MultiLineString", Between,
             RegProps("Pay or Permit", 2, "Q", Absent)),
      Source("regulations", "MultiLineString", NearH0,
             RegProps("Time limited", 2, "Q", "R")),
      Source("regulations", "MultiLineString", WestOfV0,
             RegProps("No parking any time", NoneInt, Absent, Absent)),
      Source("regulations", "MultiLineString", FarAway,
             RegProps("Time limited", 1, Absent, Absent)),
      Source("regulations", "LineString", Between,
             RegProps("Time limited", 1, Absent, Absent)),
      Source("sweeping", "LineString", NearH0, SweepProps("Tues", "A St")),
      Source("sweeping", "LineString", FromNorth, SweepProps("Tues", "B St")),
      Source("metered", "LineString", FromSouth, NoProps) }

FileRank(file) ==
    CASE file = "regulations" -> 1 [] file = "sweeping" -> 2 [] file = "metered" -> 3

\* The three files are read one after the other: regulations, sweeping, metered.
InFileOrder(s) ==
    \A i \in 1..(Len(s) - 1) : FileRank(s[i].file) <= FileRank(s[i + 1].file)

----------------------------------------------------------------------------
(* Loaders.                                                                 *)

\* load_regulations / load_street_sweeping / load_metered_blockfaces: the
\* geometry type each loader accepts.
AcceptedType(file) == IF file = "regulations" THEN "MultiLineString" ELSE "LineString"

Loadable(src) == src.gtype = AcceptedType(src.file)

\* The (geometry, properties) tuple a loader appends; the metered loader
\* sets the marker.
LoadedRecord(src) ==
    [geom |-> src.geom,
     props |-> IF src.file = "metered"
                 THEN [src.props EXCEPT !._is_metered = TRUE]
                 ELSE src.props]

RECURSIVE LoadAll(_)
LoadAll(srcs) ==
    IF srcs = <<>> THEN <<>>
    ELSE (IF Loadable(srcs[1]) THEN <<LoadedRecord(srcs[1])>> ELSE <<>>)
         \o LoadAll(Tail(srcs))

is_in_bounds(geometry) ==
    /\ BoundsMinLat <= geometry.a[2] /\ geometry.a[2] <= BoundsMaxLat
    /\ BoundsMinLon <= geometry.a[1] /\ geometry.a[1] <= BoundsMaxLon

\* First pass, lines 799-840: one object per valid feature inside the bounds.
\* No feature of the catalogue carries a globalid, so the id is the default
\* blockface_{idx}; simple selects the side parser of the simple converter.
BlockfaceObject(feature, idx, simple) ==
    [id |-> idx - 1,
     geometry |-> feature.geometry,
     street_info |-> parse_street_info(feature.popupinfo),
     side |-> IF simple THEN simple_parse_side_from_popupinfo(feature.popupinfo)
                        ELSE parse_side_from_popupinfo(feature.popupinfo),
     regulations |-> <<>>]

\* Lines 803-807: geom = feature['geometry'] and then geom['type'], outside
\* any try: subscripting the None of a null geometry raises TypeError.
FeatureRaises(feature) == feature.gtype = None

FeatureInvalid(feature) == feature.gtype # "LineString"
FeatureOutOfBounds(feature, filter) ==
    ~FeatureInvalid(feature) /\ filter /\ ~is_in_bounds(feature.geometry)

RECURSIVE FirstPass(_, _, _, _)
FirstPass(fs, idx, filter, simple) ==
    IF idx > Len(fs) THEN <<>>
    ELSE (IF FeatureInvalid(fs[idx]) \/ FeatureOutOfBounds(fs[idx], filter)
            THEN <<>>
            ELSE <<BlockfaceObject(fs[idx], idx, simple)>>)
         \o FirstPass(fs, idx + 1, filter, simple)

\* The hits of a query against the spatial index, in the order of the index.
RECURSIVE QueryOrder(_, _, _)
QueryOrder(order, i, n) ==
    IF i > Len(order) THEN <<>>
    ELSE (IF order[i] <= n THEN <<order[i]>> ELSE <<>>) \o QueryOrder(order, i + 1, n)

----------------------------------------------------------------------------
(* Matching pass of the priority converter, lines 857-899.                  *)

\* float('inf')
Infinity == -1

\* Line 889, distance < min_distance.  First a variant with <=, then the
\* comparison of the code.
CloserOrEqual(distance, min_distance) ==
    min_distance = Infinity \/ distance <= min_distance

Closer(distance, min_distance) ==
    min_distance = Infinity \/ distance < min_distance

\* Lines 873-884: the blockface is within the buffer and passes the side check.
Survives(bf, reg_geom) ==
    /\ BufferIntersects(reg_geom, BUFFER_DISTANCE, bf.geometry)
    /\ ~SideFilterDiscards(bf.side, bf.geometry, reg_geom)

\* Lines 867-891: the loop over the hits, keeping the closest survivor.
RECURSIVE ClosestFrom(_, _, _, _, _, _)
ClosestFrom(hits, i, objects, reg_geom, closest_blockface, min_distance) ==
    IF i > Len(hits) THEN closest_blockface
    ELSE LET bf == objects[hits[i]]
             distance == Dist2(reg_geom, bf.geometry)
         IN  IF Survives(bf, reg_geom) /\ Closer(distance, min_distance)
               THEN ClosestFrom(hits, i + 1, objects, reg_geom, hits[i], distance)
               ELSE ClosestFrom(hits, i + 1, objects, reg_geom,
                                closest_blockface, min_distance)

\* 0 stands for closest_blockface = None.
ClosestBlockface(order, objects, reg_geom) ==
    ClosestFrom(QueryOrder(order, 1, Len(objects)), 1, objects, reg_geom, 0, Infinity)

----------------------------------------------------------------------------
(* Third pass, lines 909-968.                                               *)

KeyFields == {"type", "permitZone", "permitZones", "timeLimit", "enforcementDays",
              "enforcementStart", "enforcementEnd", "specialConditions",
              "_sourceStreet"}

\* Lines 915-922: the non-None items of the dictionary except meterRate.  A
\* key that is not set and a key holding None both leave no item.
DedupKey(reg) ==
    [k \in KeyFields |->
        IF k = "_sourceStreet" /\ reg[k] = Absent THEN None ELSE reg[k]]

RECURSIVE Deduplicate(_, _, _)
Deduplicate(regs, i, seen) ==
    IF i > Len(regs) THEN <<>>
    ELSE IF DedupKey(regs[i]) \in seen
           THEN Deduplicate(regs, i + 1, seen)
           ELSE <<i>> \o Deduplicate(regs, i + 1, seen \cup {DedupKey(regs[i])})

\* Positions in the raw list of the regulations kept as unique_regulations.
UniquePositions(regs) == Deduplicate(regs, 1, {})

\* normalize_street_name on the corridor names of the data set.
normalize_street_name(name) ==
    CASE name = "A St" -> "A Street"
      [] name = "B St" -> "B Street"
      [] name = "08th Ave" -> "8th Avenue"
      [] OTHER -> name

\* Lines 940-948: the first unique regulation with a street hint wins.
\* First a variant in which the last one wins, a loop without the break.
RECURSIVE LastHint(_, _)
LastHint(regs, i) ==
    IF i > Len(regs) THEN None
    ELSE IF LastHint(regs, i + 1) # None THEN LastHint(regs, i + 1)
    ELSE IF regs[i]._sourceStreet \notin {Absent, None, ""}
           THEN regs[i]._sourceStreet
           ELSE None

RECURSIVE FirstHint(_, _)
FirstHint(regs, i) ==
    IF i > Len(regs) THEN None
    ELSE IF regs[i]._sourceStreet \notin {Absent, None, ""}
           THEN regs[i]._sourceStreet
           ELSE FirstHint(regs, i + 1)

StreetName(street_info, unique_regulations) ==
    IF street_info.street = UnknownStreet /\ FirstHint(unique_regulations, 1) # None
      THEN <<normalize_street_name(FirstHint(unique_regulations, 1))>>
      ELSE street_info.street

\* reg.pop('_sourceStreet', None)
Stripped(reg) == [reg EXCEPT !._sourceStreet = Absent]

EmittedBlockface(bf_obj) ==
    LET unique == UniquePositions(bf_obj.regulations)
        unique_regulations == [j \in 1..Len(unique) |-> bf_obj.regulations[unique[j]]]
    IN  [id |-> bf_obj.id,
         street |-> StreetName(bf_obj.street_info, unique_regulations),
         fromStreet |-> bf_obj.street_info.from,
         toStreet |-> bf_obj.street_info.to,
         side |-> bf_obj.side,
         geometry |-> bf_obj.geometry,
         regulations |-> [j \in 1..Len(unique) |-> Stripped(unique_regulations[j])]]

\* The pop acts on the dictionaries of the object's own list.
AfterThirdPass(bf_obj) ==
    LET unique == Range(UniquePositions(bf_obj.regulations))
    IN  [bf_obj EXCEPT !.regulations =
            [i \in 1..Len(bf_obj.regulations) |->
                IF i \in unique THEN Stripped(bf_obj.regulations[i])
                ELSE bf_obj.regulations[i]]]

----------------------------------------------------------------------------
(* The priority converter as a process: convert_with_regulations.           *)

ZoneIdle ==
    /\ zones = <<>> /\ pair_idx = 0 /\ modified = <<>> /\ zpc = "idle"
    /\ split_run = 0 /\ last_split = <<>> /\ split_results = <<>>
    /\ SHAPELY_AVAILABLE = TRUE /\ SCIPY_AVAILABLE = TRUE /\ raw_blockfaces = <<>>
    /\ areas_polygons = <<>> /\ areas = <<>>

SimpleIdle == feat_idx = 0

SideIdle ==
    /\ side_centerline = Line(0, 0, 0, 0) /\ side_test_line = Line(0, 0, 0, 0)
    /\ side_offset = NoneInt /\ side_of_line = None

ExtractIdle == ex_props = NoProps /\ ex_out = <<>>

TimeIdle == clock_str = <<>> /\ clock_out = <<>>

\* ValidationResult(is_valid=True); stats holds the two counts.
NewResult == [is_valid |-> TRUE, errors |-> <<>>, warnings |-> <<>>, stats |-> <<>>]

NoMeters == [inside |-> 0, outside |-> 0, invalid |-> 0, duplicates |-> 0]

NoData == [keys |-> {}, zones |-> <<>>, meters |-> NoMeters]

ValidIdle == app_data = NoData /\ valid_pc = "idle" /\ validation = NewResult

EtlIdle ==
    /\ etl_pc = "idle" /\ etl_written = <<>> /\ etl_ios = "not invoked"
    /\ etl_result = None

FetchIdle ==
    /\ fetch_pc = "idle" /\ fetch_attempt = 0 /\ fetch_errors = <<>>
    /\ fetch_requests = 0 /\ fetch_waits = <<>> /\ fetch_outcome = None

SchedIdle ==
    /\ sched_pc = "idle" /\ shutdown_requested = FALSE /\ sleep_count = 0
    /\ runs_started = 0 /\ runs_after_signal = 0 /\ sleeps_after_signal = 0

OtherIdle == TimeIdle /\ ValidIdle /\ EtlIdle /\ FetchIdle /\ SchedIdle

RunStart ==
    /\ pc = "start"
    /\ all_regulations = <<>>
    /\ skipped = 0
    /\ blockface_objects = <<>>
    /\ skipped_invalid = 0
    /\ skipped_out_of_bounds = 0
    /\ reg_idx = 0
    /\ regulations_matched = 0
    /\ regulations_unmatched = 0
    /\ attached = <<>>
    /\ blockfaces = <<>>
    /\ run = 1
    /\ outputs = <<>>

\* The converters, the zone deriver and the side determination at rest.
CoreIdle ==
    /\ features = <<>>
    /\ sources = <<>>
    /\ bounds_filter = FALSE
    /\ tree_order = <<>>
    /\ RunStart
    /\ SimpleIdle
    /\ ExtractIdle
    /\ ZoneIdle
    /\ SideIdle

Init ==
    /\ features \in SeqsUpTo(FeatureCatalogue, MaxBlockfaces)
    /\ sources \in {s \in {<<>>} \cup SeqsUpTo(SourceCatalogue, MaxRecords) :
                       InFileOrder(s)}
    /\ bounds_filter \in BOOLEAN
    /\ tree_order \in Permutations(1..Len(features))
    /\ RunStart
    /\ SimpleIdle
    /\ SideIdle
    /\ OtherIdle
    /\ ExtractIdle
    /\ ZoneIdle

\* Lines 764-785: load the three files; stop when nothing was loaded.
LoadRegulations ==
    /\ pc = "start"
    /\ all_regulations' = LoadAll(sources)
    /\ skipped' = Len(sources) - Len(LoadAll(sources))
    /\ pc' = IF LoadAll(sources) = <<>> THEN "aborted" ELSE "blockfaces"
    /\ UNCHANGED <<inputVars, sideVars, otherVars, blockface_objects, skipped_invalid,
                   skipped_out_of_bounds, reg_idx, regulations_matched,
                   regulations_unmatched, attached, blockfaces, run, outputs,
                   simpleVars, extractVars, zoneVars>>

\* Line 795: the list of objects starts empty, whatever an earlier run
\* built.  First a variant that keeps the earlier objects.
InitialObjectsKept(previous) == previous

InitialObjects(previous) == <<>>

\* Lines 787-855: first pass, index build, counters.
\* An exception of the loop is caught nowhere (main calls the converter
\* bare): the interpreter prints the traceback and the run ends, "raised".
LoadBlockfaces ==
    /\ pc = "blockfaces"
    /\ IF \E i \in DOMAIN features : FeatureRaises(features[i])
         THEN /\ pc' = "raised"
              /\ UNCHANGED <<blockface_objects, skipped_invalid,
                             skipped_out_of_bounds, reg_idx, regulations_matched,
                             regulations_unmatched, attached>>
         ELSE /\ blockface_objects' = InitialObjects(blockface_objects)
                                      \o FirstPass(features, 1, bounds_filter, FALSE)
              /\ skipped_invalid' =
                    Cardinality({i \in DOMAIN features : FeatureInvalid(features[i])})
              /\ skipped_out_of_bounds' =
                    Cardinality({i \in DOMAIN features :
                                    FeatureOutOfBounds(features[i], bounds_filter)})
              /\ reg_idx' = 1
              /\ regulations_matched' = 0
              /\ regulations_unmatched' = 0
              /\ attached' = [i \in DOMAIN all_regulations |-> {}]
              /\ pc' = "match"
    /\ UNCHANGED <<inputVars, sideVars, otherVars, all_regulations, skipped, blockfaces, run, outputs,
                   simpleVars, extractVars, zoneVars>>

\* Lines 894-899: the two counters.  First a variant of the second counter
\* without the else.
UnmatchedAlways(closest_blockface, n) == n + 1

MatchedAfter(closest_blockface, n) == IF closest_blockface # 0 THEN n + 1 ELSE n

UnmatchedAfter(closest_blockface, n) == IF closest_blockface # 0 THEN n ELSE n + 1

\* Lines 857-899: one iteration of the loop over the loaded records.
\* Line 896: closest_blockface['regulations'].extend(extracted_regs).  First
\* a variant that assigns the list instead of extending it.
AssignRegulations(objects, closest_blockface, extracted_regs) ==
    [objects EXCEPT ![closest_blockface].regulations = extracted_regs]

ExtendRegulations(objects, closest_blockface, extracted_regs) ==
    [objects EXCEPT ![closest_blockface].regulations = @ \o extracted_regs]

MatchRecord ==
    /\ pc = "match"
    /\ reg_idx <= Len(all_regulations)
    /\ LET reg == all_regulations[reg_idx]
           closest_blockface == ClosestBlockface(tree_order, blockface_objects, reg.geom)
       IN  /\ regulations_matched' = MatchedAfter(closest_blockface, regulations_matched)
           /\ regulations_unmatched' =
                 UnmatchedAfter(closest_blockface, regulations_unmatched)
           /\ IF closest_blockface # 0
                 THEN /\ blockface_objects' =
                            ExtendRegulations(blockface_objects, closest_blockface,
                                              extract_regulation_from_props(reg.props))
                      /\ attached' =
                            [attached EXCEPT ![reg_idx] = @ \cup {closest_blockface}]
                 ELSE UNCHANGED <<blockface_objects, attached>>
    /\ reg_idx' = reg_idx + 1
    /\ UNCHANGED <<inputVars, sideVars, otherVars, pc, all_regulations, skipped, skipped_invalid,
                   skipped_out_of_bounds, blockfaces, run, outputs, simpleVars, extractVars, zoneVars>>

\* Lines 904-1019: deduplicate, backfill, strip the hint, write the output.
ThirdPass ==
    /\ pc = "match"
    /\ reg_idx > Len(all_regulations)
    /\ blockfaces' = [i \in DOMAIN blockface_objects |->
                         EmittedBlockface(blockface_objects[i])]
    /\ blockface_objects' = [i \in DOMAIN blockface_objects |->
                                AfterThirdPass(blockface_objects[i])]
    /\ outputs' = Append(outputs, [blockfaces |-> blockfaces', assignments |-> attached])
    /\ pc' = "done"
    /\ UNCHANGED <<inputVars, sideVars, otherVars, all_regulations, skipped, skipped_invalid,
                   skipped_out_of_bounds, reg_idx, regulations_matched,
                   regulations_unmatched, attached, run, simpleVars, extractVars, zoneVars>>

\* The converter is started again on the same files (main, line 1075).
Rerun ==
    /\ pc \in {"done", "aborted", "raised"}
    /\ run < MaxRuns
    /\ run' = run + 1
    /\ pc' = "start"
    /\ UNCHANGED <<inputVars, sideVars, otherVars, all_regulations, skipped, blockface_objects,
                   skipped_invalid, skipped_out_of_bounds, reg_idx,
                   regulations_matched, regulations_unmatched, attached,
                   blockfaces, outputs, simpleVars, extractVars, zoneVars>>

Next ==
    \/ LoadRegulations
    \/ LoadBlockfaces
    \/ MatchRecord
    \/ ThirdPass
    \/ Rerun

Spec == Init /\ [][Next]_vars

----------------------------------------------------------------------------
(* The simple converter as a process:                                       *)
(* convert_geojson_with_regulations.py, convert_with_regulations.           *)

\* Only the regulations file is read.
SimpleSources == {src \in SourceCatalogue : src.file = "regulations"}

InitSimple ==
    /\ features \in SeqsUpTo(FeatureCatalogue, MaxBlockfaces)
    /\ sources \in {<<>>} \cup SeqsUpTo(SimpleSources, MaxRecords)
    /\ bounds_filter \in BOOLEAN
    /\ tree_order = <<>>
    /\ RunStart
    /\ SimpleIdle
    /\ SideIdle
    /\ OtherIdle
    /\ ExtractIdle
    /\ ZoneIdle

\* Lines 381-386: load the regulations; stop when none was loaded.
SimpleLoadRegulations ==
    /\ pc = "start"
    /\ all_regulations' = LoadAll(sources)
    /\ skipped' = Len(sources) - Len(LoadAll(sources))
    /\ attached' = [i \in DOMAIN LoadAll(sources) |-> {}]
    /\ feat_idx' = 1
    /\ pc' = IF LoadAll(sources) = <<>> THEN "aborted" ELSE "convert"
    /\ UNCHANGED <<inputVars, sideVars, otherVars, blockface_objects, skipped_invalid,
                   skipped_out_of_bounds, reg_idx, regulations_matched,
                   regulations_unmatched, blockfaces, run, outputs,
                   extractVars, zoneVars>>

\* Lines 351-370, find_matching_regulations: the records, in file order,
\* whose geometry intersects the buffered blockface.
RECURSIVE SimpleMatches(_, _, _)
SimpleMatches(blockface_geom, regulations, i) ==
    IF i > Len(regulations) THEN <<>>
    ELSE (IF BufferIntersects(regulations[i].geom, SIMPLE_BUFFER_DISTANCE, blockface_geom)
            THEN <<i>> ELSE <<>>)
         \o SimpleMatches(blockface_geom, regulations, i + 1)

RECURSIVE SimpleExtractAll(_, _, _)
SimpleExtractAll(regulations, matches, j) ==
    IF j > Len(matches) THEN <<>>
    ELSE simple_extract_regulation(regulations[matches[j]].props)
         \o SimpleExtractAll(regulations, matches, j + 1)

find_matching_regulations(blockface_geom, regulations) ==
    SimpleExtractAll(regulations, SimpleMatches(blockface_geom, regulations, 1), 1)

\* Lines 401-477: one iteration of the loop over the features.
SimpleConvertFeature ==
    /\ pc = "convert"
    /\ feat_idx <= Len(features)
    /\ LET feature == features[feat_idx]
           bf == BlockfaceObject(feature, feat_idx, TRUE)
           matched_regulations == find_matching_regulations(bf.geometry, all_regulations)
           matches == Range(SimpleMatches(bf.geometry, all_regulations, 1))
       IN  IF FeatureRaises(feature)
             THEN /\ pc' = "raised"
                  /\ UNCHANGED <<skipped_invalid, skipped_out_of_bounds,
                                 blockfaces, attached>>
           ELSE IF FeatureInvalid(feature)
             THEN /\ skipped_invalid' = skipped_invalid + 1
                  /\ UNCHANGED <<pc, skipped_out_of_bounds, blockfaces, attached>>
           ELSE IF FeatureOutOfBounds(feature, bounds_filter)
             THEN /\ skipped_out_of_bounds' = skipped_out_of_bounds + 1
                  /\ UNCHANGED <<pc, skipped_invalid, blockfaces, attached>>
           ELSE /\ pc' = pc
                /\ blockfaces' =
                      Append(blockfaces,
                             EmittedBlockface([bf EXCEPT !.regulations = matched_regulations]))
                /\ attached' = [i \in DOMAIN attached |->
                                   IF i \in matches
                                     THEN attached[i] \cup {Len(blockfaces) + 1}
                                     ELSE attached[i]]
                /\ UNCHANGED <<skipped_invalid, skipped_out_of_bounds>>
    /\ feat_idx' = feat_idx + 1
    /\ UNCHANGED <<inputVars, sideVars, otherVars, all_regulations, skipped, blockface_objects,
                   reg_idx, regulations_matched, regulations_unmatched, run,
                   outputs, extractVars, zoneVars>>

\* Lines 479-536: statistics and the output file.
SimpleSave ==
    /\ pc = "convert"
    /\ feat_idx > Len(features)
    /\ outputs' = Append(outputs, [blockfaces |-> blockfaces, assignments |-> attached])
    /\ pc' = "done"
    /\ UNCHANGED <<inputVars, sideVars, otherVars, all_regulations, skipped, blockface_objects,
                   skipped_invalid, skipped_out_of_bounds, reg_idx,
                   regulations_matched, regulations_unmatched, attached,
                   blockfaces, run, simpleVars, extractVars, zoneVars>>

NextSimple ==
    \/ SimpleLoadRegulations
    \/ SimpleConvertFeature
    \/ SimpleSave

SpecSimple == InitSimple /\ [][NextSimple]_vars

----------------------------------------------------------------------------
(* The field normalizer's extract_regulation of both converters, applied    *)
(* to one properties dictionary.                                            *)

MaxPermitZones == 2

ZoneField(n, zone_values) ==
    IF n <= MaxPermitZones THEN {Absent} \cup zone_values ELSE {Absent}

ExtractInputs ==
    { [NoProps EXCEPT !.regulation = regulation, !.days = <<"M-F">>,
                      !.hrs_begin = <<9, 0, 0>>, !.hrs_end = <<1, 8, 0, 0>>,
                      !.hrlimit = hrlimit, !.rpparea1 = rpparea1,
                      !.rpparea2 = rpparea2, !.rpparea3 = rpparea3,
                      !.exceptions = exceptions] :
        regulation \in {"Pay or Permit", "Pay or Permit ", "Time limited",
                        "Residential permit", "Residential permit area",
                        "Street cleaning", "Street Sweeping", "RPP",
                        "Parking", Absent},
        hrlimit \in {NoneInt, 2},
        rpparea1 \in ZoneField(1, {"Q", "q", "R"}),
        rpparea2 \in ZoneField(2, {"R", " R", "Q", " "}),
        rpparea3 \in ZoneField(3, {"S", "Q"}),
        exceptions \in {Absent, "Except Sundays"} }

\* extract_regulation never returns an empty list: <<>> is "not yet applied".
InitExtract ==
    /\ features = <<>>
    /\ sources = <<>>
    /\ bounds_filter = FALSE
    /\ tree_order = <<>>
    /\ RunStart
    /\ SimpleIdle
    /\ SideIdle
    /\ OtherIdle
    /\ ZoneIdle
    /\ ex_props \in ExtractInputs
    /\ ex_out = <<>>

ExtractPriority ==
    /\ ex_out = <<>>
    /\ ex_out' = extract_regulation(ex_props)
    /\ UNCHANGED <<inputVars, sideVars, otherVars, runVars, simpleVars, ex_props, zoneVars>>

ExtractSimple ==
    /\ ex_out = <<>>
    /\ ex_out' = simple_extract_regulation(ex_props)
    /\ UNCHANGED <<inputVars, sideVars, otherVars, runVars, simpleVars, ex_props, zoneVars>>

NextExtract ==
    \/ ExtractPriority
    \/ ExtractSimple

SpecExtract == InitExtract /\ [][NextExtract]_vars

----------------------------------------------------------------------------
(* Properties of the matchers.                                              *)

\* The records the matching loop of the priority converter has gone through.
Processed == IF pc \in {"match", "done"} THEN 1..(reg_idx - 1) ELSE {}

PositionIn(seq, x) == CHOOSE k \in 1..Len(seq) : seq[k] = x

Survivors(reg_geom) ==
    {b \in DOMAIN blockface_objects : Survives(blockface_objects[b], reg_geom)}

\* C1: the regulations of one source record are never attached to more than
\* one blockface.
C1_AtMostOneOwner ==
    \A i \in DOMAIN attached : Cardinality(attached[i]) <= 1

\* C2: a blockface whose side maps to LEFT or RIGHT carries no regulation of
\* a record whose side of the line is determinate and is the other one.
C2_SideExclusivity ==
    \A i \in DOMAIN attached : \A b \in attached[i] :
        LET bf == blockfaces[b]
            reg_side == determine_side_of_line(bf.geometry, all_regulations[i].geom)
        IN  (bf.side \in {"ODD", "EVEN"} /\ reg_side # "UNKNOWN")
                => reg_side = (IF bf.side = "ODD" THEN "LEFT" ELSE "RIGHT")

\* C3: after the third pass no emitted blockface holds two regulations with
\* the same deduplication key.
C3_NoDuplicateKeys ==
    pc = "done" =>
        \A b \in DOMAIN blockfaces :
            \A j, k \in DOMAIN blockfaces[b].regulations :
                j # k => DedupKey(blockfaces[b].regulations[j])
                            # DedupKey(blockfaces[b].regulations[k])

\* C4: a matched record is attached to a candidate that passed the buffer
\* and side checks and is at minimum distance among those that passed; of
\* several at the same minimum distance the first in query order is taken.
C4_ClosestEligible ==
    \A i \in Processed :
        LET g == all_regulations[i].geom
            hits == QueryOrder(tree_order, 1, Len(blockface_objects))
            d(b) == Dist2(g, blockface_objects[b].geometry)
        IN  \A b \in attached[i] :
                /\ b \in Survivors(g)
                /\ \A c \in Survivors(g) \ {b} :
                      \/ d(b) < d(c)
                      \/ d(b) = d(c) /\ PositionIn(hits, b) < PositionIn(hits, c)

C4_Witness ==
    \E i \in Processed : \E b \in attached[i] :
        \E c \in Survivors(all_regulations[i].geom) \ {b} :
            Dist2(all_regulations[i].geom, blockface_objects[b].geometry)
                = Dist2(all_regulations[i].geom, blockface_objects[c].geometry)

\* C5: a candidate within the buffer is kept out by the side check only when
\* its side maps to LEFT or RIGHT, the record's side of the line is LEFT or
\* RIGHT, and the two differ; any other candidate within the buffer competes
\* on distance, so the record is attached at most that far away.
C5_AmbiguousSidePermissive ==
    \A i \in Processed : \A b \in DOMAIN blockface_objects :
        LET g == all_regulations[i].geom
            bf == blockface_objects[b]
            reg_side == determine_side_of_line(bf.geometry, g)
            opposite == /\ bf.side \in {"ODD", "EVEN"}
                        /\ reg_side # "UNKNOWN"
                        /\ reg_side # (IF bf.side = "ODD" THEN "LEFT" ELSE "RIGHT")
        IN  (BufferIntersects(g, BUFFER_DISTANCE, bf.geometry) /\ ~opposite)
                => /\ attached[i] # {}
                   /\ \A a \in attached[i] :
                         Dist2(g, blockface_objects[a].geometry) <= Dist2(g, bf.geometry)

C5_Witness ==
    \E i \in Processed : \E b \in attached[i] :
        /\ blockface_objects[b].side \in {"NORTH", "SOUTH", "EAST", "WEST"}
        /\ determine_side_of_line(blockface_objects[b].geometry,
                                  all_regulations[i].geom) # "UNKNOWN"

RECURSIVE SumOver(_, _)
SumOver(f, S) ==
    IF S = {} THEN 0
    ELSE LET x == CHOOSE y \in S : TRUE IN f[x] + SumOver(f, S \ {x})

----------------------------------------------------------------------------
(* Zone cleanup: parking_transformer.py, _split_different_zone_overlaps.    *)
(*                                                                          *)
(* A polygon is an axis-aligned rectangle; the polygons of one input all    *)
(* span the same strip, along x or along y, so that the piece cut from a    *)
(* polygon reaches across it and what is left is a rectangle, two           *)
(* rectangles (a MultiPolygon) or nothing.                                  *)

MaxRPPZones == 3

\* Grid step of the input coordinates: a power of two, so that the centroid
\* of every intersection the pair loop can form is a whole number.
Unit == 2^8

Rect(minx, miny, maxx, maxy) ==
    [minx |-> minx, miny |-> miny, maxx |-> maxx, maxy |-> maxy]

EmptyGeometry == Rect(0, 0, 0, 0)

is_empty(g) == g.maxx <= g.minx \/ g.maxy <= g.miny

area(g) == IF is_empty(g) THEN 0 ELSE (g.maxx - g.minx) * (g.maxy - g.miny)

\* shapely box(minx, miny, maxx, maxy)
box(minx, miny, maxx, maxy) == Rect(minx, miny, maxx, maxy)

intersection(g, h) ==
    LET r == Rect(Max(g.minx, h.minx), Max(g.miny, h.miny),
                  Min(g.maxx, h.maxx), Min(g.maxy, h.maxy))
    IN  IF is_empty(r) THEN EmptyGeometry ELSE r

\* Touching rectangles intersect, in a line or a point.
intersects(g, h) ==
    /\ Max(g.minx, h.minx) <= Min(g.maxx, h.maxx)
    /\ Max(g.miny, h.miny) <= Min(g.maxy, h.maxy)

centroid(g) == [x |-> (g.minx + g.maxx) \div 2, y |-> (g.miny + g.maxy) \div 2]

Covers(g, h) ==
    is_empty(h) \/ (/\ g.minx <= h.minx /\ h.maxx <= g.maxx
                    /\ g.miny <= h.miny /\ h.maxy <= g.maxy)

\* g.difference(cut) for a cut that lies in g and reaches across it: the
\* kind of geometry that results and, for a Polygon, the rectangle.
difference(g, cut) ==
    LET poly(r) == [kind |-> "Polygon", geom |-> r]
        other(k) == [kind |-> k, geom |-> EmptyGeometry]
        across_y == cut.miny = g.miny /\ cut.maxy = g.maxy
        across_x == cut.minx = g.minx /\ cut.maxx = g.maxx
    IN  IF is_empty(cut) THEN poly(g)
        ELSE IF across_x /\ across_y THEN other("Empty")
        ELSE IF across_y /\ cut.minx = g.minx
          THEN poly(Rect(cut.maxx, g.miny, g.maxx, g.maxy))
        ELSE IF across_y /\ cut.maxx = g.maxx
          THEN poly(Rect(g.minx, g.miny, cut.minx, g.maxy))
        ELSE IF across_x /\ cut.miny = g.miny
          THEN poly(Rect(g.minx, cut.maxy, g.maxx, g.maxy))
        ELSE IF across_x /\ cut.maxy = g.maxy
          THEN poly(Rect(g.minx, g.miny, g.maxx, cut.miny))
        ELSE other("MultiPolygon")

\* Lines 383-405: a valid polygon is returned as it is, an empty one is None.
fix_polygon(poly) == IF is_empty(poly) THEN EmptyGeometry ELSE poly

\* Lines 407-421: (zone_idx, poly_idx, polygon, area_code) of every polygon,
\* zone by zone.
RECURSIVE ZonePolys(_, _, _)
ZonePolys(zone, zone_idx, poly_idx) ==
    IF poly_idx > Len(zone.polygon) THEN <<>>
    ELSE (IF fix_polygon(zone.polygon[poly_idx]) # EmptyGeometry
            THEN <<[zone_idx |-> zone_idx, poly_idx |-> poly_idx,
                    poly |-> zone.polygon[poly_idx], area_code |-> zone.area_code]>>
            ELSE <<>>)
         \o ZonePolys(zone, zone_idx, poly_idx + 1)

RECURSIVE AllPolys(_, _)
AllPolys(zs, zone_idx) ==
    IF zone_idx > Len(zs) THEN <<>>
    ELSE ZonePolys(zs[zone_idx], zone_idx, 1) \o AllPolys(zs, zone_idx + 1)

all_polys == AllPolys(zones, 1)

\* Lines 430-431: the pairs (i, j), i < j, in the order of the two loops.
RECURSIVE PairsFrom(_, _, _)
PairsFrom(i, j, n) ==
    IF i >= n THEN <<>>
    ELSE IF j > n THEN PairsFrom(i + 1, i + 2, n)
    ELSE <<<<i, j>>>> \o PairsFrom(i, j + 1, n)

Pairs(n) == PairsFrom(1, 2, n)

\* modified.get(key, poly)
Current(mod, entry) ==
    LET key == <<entry.zone_idx, entry.poly_idx>>
    IN  IF key \in DOMAIN mod THEN mod[key] ELSE entry.poly

Put(mod, key, poly) ==
    [k \in DOMAIN mod \cup {key} |-> IF k = key THEN poly ELSE mod[k]]

\* Line 452: intersection.area < 1e-10
MinOverlapArea == 1

\* Lines 471-477: the boxes reach beyond the intersection by 0.01.
BoxMargin == 1

\* Lines 459-477: the two boxes, split at the centroid across the longer
\* axis of the intersection's bounding box.
left_box(bounds, c) ==
    IF bounds.maxx - bounds.minx > bounds.maxy - bounds.miny
      THEN box(bounds.minx - BoxMargin, bounds.miny - BoxMargin,
               c.x, bounds.maxy + BoxMargin)
      ELSE box(bounds.minx - BoxMargin, bounds.miny - BoxMargin,
               bounds.maxx + BoxMargin, c.y)

right_box(bounds, c) ==
    IF bounds.maxx - bounds.minx > bounds.maxy - bounds.miny
      THEN box(c.x, bounds.miny - BoxMargin,
               bounds.maxx + BoxMargin, bounds.maxy + BoxMargin)
      ELSE box(bounds.minx - BoxMargin, c.y,
               bounds.maxx + BoxMargin, bounds.maxy + BoxMargin)

\* Lines 479-485: the zone with the lower code gets the left or bottom box.
\* First a variant that gives it to the polygon enumerated first.
FirstGetsLeft(area1, area2) == TRUE

Zone1GetsLeft(area1, area2) == area1 < area2

\* The sort position of the one-letter area codes of the input.
CodeRank(code) ==
    CASE code = "A" -> 1 [] code = "B" -> 2 [] code = "C" -> 3 [] OTHER -> 4

\* Lines 488-493: the new polygon, or None (EmptyGeometry) when the
\* difference is not a Polygon.
\* First a variant that, when the difference is a MultiPolygon, takes the
\* half of the polygon left of its middle instead of None.
NewPolyRepaired(current, overlap, other_gets) ==
    LET d == difference(current, intersection(overlap, other_gets))
    IN  IF d.kind = "Polygon" THEN fix_polygon(d.geom)
        ELSE IF d.kind = "MultiPolygon"
          THEN Rect(current.minx, current.miny,
                    (current.minx + current.maxx) \div 2, current.maxy)
        ELSE EmptyGeometry

NewPoly(current, overlap, other_gets) ==
    LET d == difference(current, intersection(overlap, other_gets))
    IN  IF d.kind = "Polygon" THEN fix_polygon(d.geom) ELSE EmptyGeometry

\* Lines 431-503: one iteration of the inner loop; the dictionary modified
\* after it.
SplitOverlap(mod, e1, e2) ==
    LET current1 == fix_polygon(Current(mod, e1))
        current2 == fix_polygon(Current(mod, e2))
        overlap == intersection(current1, current2)
        c == centroid(overlap)
        first_left == Zone1GetsLeft(CodeRank(e1.area_code), CodeRank(e2.area_code))
        zone1_gets == IF first_left THEN left_box(overlap, c) ELSE right_box(overlap, c)
        zone2_gets == IF first_left THEN right_box(overlap, c) ELSE left_box(overlap, c)
        new_poly1 == NewPoly(current1, overlap, zone2_gets)
        new_poly2 == NewPoly(current2, overlap, zone1_gets)
        mod1 == IF new_poly1 # EmptyGeometry
                  THEN Put(mod, <<e1.zone_idx, e1.poly_idx>>, new_poly1) ELSE mod
    IN  IF e1.area_code = e2.area_code THEN mod
        ELSE IF current1 = EmptyGeometry \/ current2 = EmptyGeometry THEN mod
        ELSE IF ~intersects(current1, current2) THEN mod
        ELSE IF is_empty(overlap) \/ area(overlap) < MinOverlapArea THEN mod
        ELSE IF new_poly2 # EmptyGeometry
          THEN Put(mod1, <<e2.zone_idx, e2.poly_idx>>, new_poly2)
          ELSE mod1

\* The pair is one the loop splits, not one it passes over.
Overlapping(mod, e1, e2) ==
    /\ e1.area_code # e2.area_code
    /\ area(intersection(Current(mod, e1), Current(mod, e2))) >= MinOverlapArea

\* Lines 509-547: the zones with the modified polygons in place.
\* Lines 518-536: new_polygons and new_multi_permit of a zone after its first
\* n polygons; a modified polygon that is empty is left out, and the entry
\* of a multi-permit polygon goes to the index the polygon gets.
RECURSIVE ApplyToZone(_, _, _, _)
ApplyToZone(zone, zone_idx, mod, n) ==
    IF n = 0 THEN [zone EXCEPT !.polygon = <<>>, !.multi_permit_polygons = <<>>]
    ELSE LET before == ApplyToZone(zone, zone_idx, mod, n - 1)
             key == <<zone_idx, n>>
             coords == IF key \in DOMAIN mod THEN mod[key] ELSE zone.polygon[n]
             new_idx == Len(before.polygon) + 1
         IN  IF key \in DOMAIN mod /\ is_empty(mod[key]) THEN before
             ELSE [before EXCEPT
                     !.polygon = Append(@, coords),
                     !.multi_permit_polygons =
                         IF n \in DOMAIN zone.multi_permit_polygons
                           THEN [q \in DOMAIN @ \cup {new_idx} |->
                                    IF q = new_idx THEN zone.multi_permit_polygons[n]
                                    ELSE @[q]]
                           ELSE @]

result_zones(zs, mod) ==
    IF DOMAIN mod = {} THEN zs
    ELSE [z \in DOMAIN zs |-> ApplyToZone(zs[z], z, mod, Len(zs[z].polygon))]

\* Input zones: one zone per area code; a strip along x or along y; the
\* polygons of one zone neither overlap nor touch (the same-zone merge has
\* run before).
StripRect(axis, lo, hi) ==
    IF axis = "x" THEN Rect(lo * Unit, 0, hi * Unit, 2)
                  ELSE Rect(0, lo * Unit, 2, hi * Unit)

\* Lines 25-34: the fields of RPPZone the cleanup reads; the polygon indices
\* of multi_permit_polygons count from 1 here.
RPPZone(area_code, polygon, multi_permit_polygons) ==
    [area_code |-> area_code, polygon |-> polygon,
     multi_permit_polygons |-> multi_permit_polygons]

ZoneCatalogue(axis) ==
    { RPPZone(code, <<StripRect(axis, iv[1], iv[2])>>, <<>>) :
          code \in {"A", "B", "C"}, iv \in {<<0, 1>>, <<0, 2>>, <<1, 2>>} }
    \cup { RPPZone("A", <<StripRect(axis, 0, 1), StripRect(axis, 2, 3)>>, <<>>),
           RPPZone("B", <<StripRect(axis, 1, 3)>>, <<>>) }

DistinctCodes(zs) ==
    \A i, j \in DOMAIN zs : i # j => zs[i].area_code # zs[j].area_code

Reverse(seq) == [i \in DOMAIN seq |-> seq[Len(seq) + 1 - i]]

\* The same zones and polygons enumerated in another order.
Reorderings(zs) ==
    { [i \in DOMAIN zs |->
          IF i \in flip THEN [zs[perm[i]] EXCEPT !.polygon = Reverse(@)]
          ELSE zs[perm[i]]] :
        perm \in Permutations(DOMAIN zs), flip \in SUBSET DOMAIN zs }

NoSplit == [i |-> 0, j |-> 0, current1 |-> EmptyGeometry, current2 |-> EmptyGeometry]

InitSplit ==
    /\ features = <<>>
    /\ sources = <<>>
    /\ bounds_filter = FALSE
    /\ tree_order = <<>>
    /\ SHAPELY_AVAILABLE = TRUE
    /\ SCIPY_AVAILABLE = TRUE
    /\ raw_blockfaces = <<>>
    /\ areas_polygons = <<>>
    /\ areas = <<>>
    /\ RunStart
    /\ SimpleIdle
    /\ SideIdle
    /\ OtherIdle
    /\ ExtractIdle
    /\ \E axis \in {"x", "y"} :
          zones \in {zs \in SeqsUpTo(ZoneCatalogue(axis), MaxRPPZones) : DistinctCodes(zs)}
    /\ pair_idx = 1
    /\ modified = <<>>
    /\ zpc = "pairs"
    /\ split_run = 1
    /\ last_split = NoSplit
    /\ split_results = <<>>

\* Lines 430-503: one pair of the double loop.
SplitPair ==
    /\ zpc = "pairs"
    /\ Len(zones) >= 2
    /\ pair_idx <= Len(Pairs(Len(all_polys)))
    /\ LET pair == Pairs(Len(all_polys))[pair_idx]
           e1 == all_polys[pair[1]]
           e2 == all_polys[pair[2]]
       IN  /\ modified' = SplitOverlap(modified, e1, e2)
           /\ last_split' = IF Overlapping(modified, e1, e2)
                              THEN [i |-> pair[1], j |-> pair[2],
                                    current1 |-> Current(modified, e1),
                                    current2 |-> Current(modified, e2)]
                              ELSE NoSplit
    /\ pair_idx' = pair_idx + 1
    /\ UNCHANGED <<inputVars, sideVars, otherVars, runVars, simpleVars, extractVars, zones, zpc,
                   split_run, split_results, collectVars>>

\* Lines 378-379 and 509-547: fewer than two zones are returned as they
\* are; otherwise the modifications are applied.
ApplyModifications ==
    /\ zpc = "pairs"
    /\ Len(zones) < 2 \/ pair_idx > Len(Pairs(Len(all_polys)))
    /\ split_results' = Append(split_results,
                               [zones |-> zones,
                                result |-> result_zones(zones, modified)])
    /\ last_split' = NoSplit
    /\ zpc' = "done"
    /\ UNCHANGED <<inputVars, sideVars, otherVars, runVars, simpleVars, extractVars, zones, pair_idx,
                   modified, split_run, collectVars>>

\* The cleanup runs again on the same zones, enumerated in another order.
Reenumerate ==
    /\ zpc = "done"
    /\ split_run < MaxRuns
    /\ zones' \in Reorderings(zones)
    /\ split_run' = split_run + 1
    /\ pair_idx' = 1
    /\ modified' = <<>>
    /\ zpc' = "pairs"
    /\ UNCHANGED <<inputVars, sideVars, otherVars, runVars, simpleVars, extractVars, last_split,
                   split_results, collectVars>>

NextSplit ==
    \/ SplitPair
    \/ ApplyModifications
    \/ Reenumerate

SpecSplit == InitSplit /\ [][NextSplit]_vars

----------------------------------------------------------------------------
(* Properties of the zone cleanup.                                          *)

\* (area code, polygon before, polygon after) of every polygon of a run.
Placement(r) ==
    UNION { { <<r.zones[z].area_code, r.zones[z].polygon[q], r.result[z].polygon[q]>> :
                q \in DOMAIN r.zones[z].polygon } : z \in DOMAIN r.zones }

\* The polygons of other zones that overlap the polygon e in the input.
Neighbours(polys, e) ==
    {f \in Range(polys) : f.area_code # e.area_code
                          /\ area(intersection(e.poly, f.poly)) >= MinOverlapArea}

\* No polygon overlaps more than one polygon of another zone.
OnlyIsolatedPairs(zs) ==
    \A e \in Range(AllPolys(zs, 1)) : Cardinality(Neighbours(AllPolys(zs, 1), e)) <= 1

\* C6: for two polygons of different zones that overlap each other and no
\* third polygon, the areas after the split add up to the areas before less
\* the area of the overlap.
C6_AreaConservation ==
    \A k \in DOMAIN split_results :
        LET r == split_results[k]
            polys == AllPolys(r.zones, 1)
            after(e) == r.result[e.zone_idx].polygon[e.poly_idx]
        IN  \A e \in Range(polys) : \A f \in Neighbours(polys, e) :
                (Neighbours(polys, e) = {f} /\ Neighbours(polys, f) = {e})
                    => area(after(e)) + area(after(f))
                         = area(e.poly) + area(f.poly) - area(intersection(e.poly, f.poly))

\* C7, as amended: in every pair the loop splits, whichever polygon comes
\* first, the polygon of the lower code keeps the left or bottom half of the
\* intersection and gives up nothing outside the other half, the polygon of
\* the higher code keeps the right or top half likewise; and when no polygon
\* overlaps more than one polygon of another zone, the final polygons are
\* the same whatever order the zones and polygons are enumerated in.
C7_HalvesAndIsolatedPairs ==
    /\ last_split.i # 0 =>
          LET e1 == all_polys[last_split.i]
              e2 == all_polys[last_split.j]
              first_lower == CodeRank(e1.area_code) < CodeRank(e2.area_code)
              lower_before == IF first_lower THEN last_split.current1 ELSE last_split.current2
              higher_before == IF first_lower THEN last_split.current2 ELSE last_split.current1
              lower_after == Current(modified, IF first_lower THEN e1 ELSE e2)
              higher_after == Current(modified, IF first_lower THEN e2 ELSE e1)
              overlap == intersection(last_split.current1, last_split.current2)
              wide == overlap.maxx - overlap.minx > overlap.maxy - overlap.miny
              mid == centroid(overlap)
              low_half == IF wide THEN Rect(overlap.minx, overlap.miny, mid.x, overlap.maxy)
                          ELSE Rect(overlap.minx, overlap.miny, overlap.maxx, mid.y)
              high_half == IF wide THEN Rect(mid.x, overlap.miny, overlap.maxx, overlap.maxy)
                           ELSE Rect(overlap.minx, mid.y, overlap.maxx, overlap.maxy)
          IN  /\ Covers(lower_after, low_half)
              /\ Covers(higher_after, high_half)
              /\ Covers(lower_before, lower_after)
              /\ Covers(higher_before, higher_after)
              /\ area(lower_after) >= area(lower_before) - area(high_half)
              /\ area(higher_after) >= area(higher_before) - area(low_half)
    /\ \A k \in DOMAIN split_results :
          OnlyIsolatedPairs(split_results[k].zones)
              => Placement(split_results[k]) = Placement(split_results[1])

C7_Witness ==
    /\ Len(split_results) = 2
    /\ OnlyIsolatedPairs(split_results[1].zones)
    /\ split_results[2].zones # split_results[1].zones
    /\ split_results[1].result # split_results[1].zones
    /\ Placement(split_results[2]) = Placement(split_results[1])

\* C7, as stated: the final polygons of all zones are the same whatever
\* order the zones and polygons are enumerated in.
C7_OrderIndependent ==
    \A k \in DOMAIN split_results :
        Placement(split_results[k]) = Placement(split_results[1])

----------------------------------------------------------------------------
(* Error handling of the converters.                                        *)

Malformed(feature) == FeatureRaises(feature) \/ FeatureInvalid(feature)

\* C11: a feature with missing or invalid geometry never stops the run: it
\* is skipped and counted, and the first pass goes on to the matching with
\* every malformed blockface feature in the skip counter and every
\* unloadable record of the three regulation files left out.
C11_MalformedSkippedNeverAborts ==
    /\ pc # "raised"
    /\ pc \in {"match", "done"} =>
          /\ skipped_invalid =
                Cardinality({i \in DOMAIN features : Malformed(features[i])})
          /\ Len(all_regulations) =
                Cardinality({i \in DOMAIN sources : Loadable(sources[i])})

\* The status the process hands to the shell.  convert_with_regulations
\* leaves by a plain return, after the "Aborting" message (line 785) as after
\* the summary, and main (lines 1030-1077) returns after it without calling
\* sys.exit: the interpreter then exits with 0.  An uncaught exception makes
\* it exit with 1.  NoneInt while the run is still going.
exit_status ==
    IF pc \in {"done", "aborted"} THEN 0
    ELSE IF pc = "raised" THEN 1
    ELSE NoneInt

\* C12: a run that loaded no regulation record at all aborts with a nonzero
\* exit status and writes no output; a run that recovered locally from
\* skipped records ends with the status of a clean run.
C12_AbortIsNonzeroExit ==
    /\ pc = "aborted" => /\ exit_status > 0
                         /\ outputs = <<>>
    /\ pc = "done" => exit_status = 0

----------------------------------------------------------------------------
(* Error handling of the cross-zone split.                                  *)

\* What the pair loop subtracted from the two polygons of the pair it split
\* last: the difference of each current polygon and the other zone's half.
LastDifference(side) ==
    LET e1 == all_polys[last_split.i]
        e2 == all_polys[last_split.j]
        overlap == intersection(last_split.current1, last_split.current2)
        c == centroid(overlap)
        first_lower == CodeRank(e1.area_code) < CodeRank(e2.area_code)
        zone1_gets == IF first_lower THEN left_box(overlap, c) ELSE right_box(overlap, c)
        zone2_gets == IF first_lower THEN right_box(overlap, c) ELSE left_box(overlap, c)
    IN  IF side = 1
          THEN difference(last_split.current1, intersection(overlap, zone2_gets))
          ELSE difference(last_split.current2, intersection(overlap, zone1_gets))

\* The subtraction of the last split pair gave nothing usable for the
\* polygon of that side: no single polygon that fix_polygon returns.
SubtractionFailed(side) ==
    /\ last_split.i # 0
    /\ \/ LastDifference(side).kind # "Polygon"
       \/ fix_polygon(LastDifference(side).geom) = EmptyGeometry

----------------------------------------------------------------------------
(* The zone deriver: parking_transformer.py, derive_zones_from_blockface.   *)
(*                                                                          *)
(* A blockface record holds the values of rpparea1, rpparea2 and rpparea3   *)
(* (the upper-case keys are not set) and a geometry; a line runs along x    *)
(* between two grid positions, in the row of the strip rectangles of the    *)
(* cleanup or in a row above it, so that its buffer is a rectangle that     *)
(* meets only rectangles of its own row, and reaches across them.           *)

MaxRawBlockfaces == 2

\* Line 154: BUFFER_DISTANCE = 0.00009, in the units of the rectangles.
ZONE_BUFFER_DISTANCE == 1

\* Line 171: str(area).upper().strip() on the area values of the input.
AreaCode(value) ==
    CASE value = "a" -> "A"
      [] value = "b " -> "B"
      [] value = "q" -> "Q"
      [] value = " R" -> "R"
      [] value = " " -> ""
      [] OTHER -> value

\* Lines 166-173: the distinct area codes of a record, in field order.
RECURSIVE rpp_areas(_, _)
rpp_areas(values, n) ==
    IF n = 0 THEN <<>>
    ELSE LET before == rpp_areas(values, n - 1)
             area_code == AreaCode(values[n])
         IN  IF values[n] \notin {None, ""} /\ area_code # "" /\ area_code \notin Range(before)
               THEN Append(before, area_code)
               ELSE before

\* sorted() of distinct area codes.
sorted(codes) ==
    CHOOSE s \in [1..Cardinality(codes) -> codes] :
        /\ Range(s) = codes
        /\ \A i, j \in DOMAIN s : i < j => CodeRank(s[i]) < CodeRank(s[j])

Geometry(type, coordinates) == [type |-> type, coordinates |-> coordinates]

NoGeometry == Geometry(None, <<>>)

LineAlong(lo, hi, row) ==
    Geometry("LineString", <<Pt(lo * Unit, row * Unit + ZONE_BUFFER_DISTANCE),
                             Pt(hi * Unit, row * Unit + ZONE_BUFFER_DISTANCE)>>)

\* Lines 549-606: the exterior of the flat-capped buffer of the line, or
\* None (EmptyGeometry): fewer than two coordinates (every Point), or a
\* buffer that is empty.
_buffer_geometry_to_polygon(geom, buffer_distance) ==
    LET coords == geom.coordinates
        buffered == Rect(Min(coords[1][1], coords[2][1]), coords[1][2] - buffer_distance,
                         Max(coords[1][1], coords[2][1]), coords[1][2] + buffer_distance)
    IN  IF geom.type \notin {"LineString", "Point"} \/ Len(coords) < 2 THEN EmptyGeometry
        ELSE IF is_empty(buffered) THEN EmptyGeometry
        ELSE buffered

RawBlockface(values, geometry) == [values |-> values, geometry |-> geometry]

RawCatalogue ==
    { RawBlockface(values, geometry) :
        values \in { <<"A", None, None>>, <<"B", None, None>>, <<"A", "B", None>>,
                     <<"b ", "a", None>>, <<"A", "a", " ">>, <<None, "", None>> },
        geometry \in { LineAlong(0, 1, 0), LineAlong(0, 2, 0), LineAlong(1, 1, 0),
                       LineAlong(0, 1, 1),
                       Geometry("Point", <<Pt(0, ZONE_BUFFER_DISTANCE)>>),
                       NoGeometry } }

\* Lines 193-201: the polygon is appended, with the sorted list of all the
\* record's areas, to the list of every area of the record.  First a variant
\* that appends it to the list of the first area only.
AppendToFirstArea(collected, areas_of_record, buffered_polygon) ==
    LET area_code == areas_of_record[1]
    IN  [c \in DOMAIN collected \cup {area_code} |->
            IF c = area_code
              THEN Append(IF c \in DOMAIN collected THEN collected[c] ELSE <<>>,
                          [polygon |-> buffered_polygon,
                           all_areas |-> sorted(Range(areas_of_record))])
              ELSE collected[c]]

AppendToAreas(collected, areas_of_record, buffered_polygon) ==
    [c \in DOMAIN collected \cup Range(areas_of_record) |->
        IF c \in Range(areas_of_record)
          THEN Append(IF c \in DOMAIN collected THEN collected[c] ELSE <<>>,
                      [polygon |-> buffered_polygon,
                       all_areas |-> sorted(Range(areas_of_record))])
          ELSE collected[c]]

\* The record passes the two skips of lines 175-189.
Collectable(record) ==
    /\ rpp_areas(record.values, Len(record.values)) # <<>>
    /\ record.geometry # NoGeometry
    /\ _buffer_geometry_to_polygon(record.geometry, ZONE_BUFFER_DISTANCE) # EmptyGeometry

\* Lines 164-203: areas_polygons after the loop over the first n records.
RECURSIVE CollectPolygons(_, _)
CollectPolygons(records, n) ==
    IF n = 0 THEN <<>>
    ELSE IF Collectable(records[n])
      THEN AppendToAreas(CollectPolygons(records, n - 1),
                         rpp_areas(records[n].values, Len(records[n].values)),
                         _buffer_geometry_to_polygon(records[n].geometry,
                                                     ZONE_BUFFER_DISTANCE))
      ELSE CollectPolygons(records, n - 1)

\* Lines 212-230: one zone per area, in sorted order of the codes, with the
\* index of its multi-permit polygons.
ZonesOf(collected) ==
    LET codes == sorted(DOMAIN collected)
    IN  [z \in DOMAIN codes |->
            LET polygon_data == collected[codes[z]]
            IN  RPPZone(codes[z],
                        [q \in DOMAIN polygon_data |-> polygon_data[q].polygon],
                        [q \in {q \in DOMAIN polygon_data :
                                    Len(polygon_data[q].all_areas) > 1} |->
                            polygon_data[q].all_areas])]

\* Lines 280-284: the permit signature of polygon idx of a zone.
Signature(zone, idx) ==
    IF idx \in DOMAIN zone.multi_permit_polygons
      THEN sorted(Range(zone.multi_permit_polygons[idx]))
      ELSE <<zone.area_code>>

\* Lines 279-288: the keys of groups, in the order they were inserted.
RECURSIVE GroupKeys(_, _)
GroupKeys(zone, n) ==
    IF n = 0 THEN <<>>
    ELSE LET before == GroupKeys(zone, n - 1)
         IN  IF Signature(zone, n) \in Range(before) THEN before
             ELSE Append(before, Signature(zone, n))

\* Lines 321-370: unary_union of rectangles: every maximal run of
\* overlapping or touching rectangles of one row becomes one rectangle; the
\* pieces of a MultiPolygon are taken row by row, from left to right.
_merge_polygon_group(polygons) ==
    LET joined(C) ==
            /\ \A r, t \in C : r.miny = t.miny
            /\ \A r \in C : (\E t \in C : t.maxx > r.maxx)
                               => \E t \in C : t.minx <= r.maxx /\ t.maxx > r.maxx
        runs == {C \in SUBSET polygons \ {{}} :
                    /\ joined(C)
                    /\ \A r \in polygons \ C : ~joined(C \cup {r})}
        hull(C) == Rect(CHOOSE v \in {r.minx : r \in C} : \A r \in C : v <= r.minx,
                        CHOOSE v \in {r.miny : r \in C} : \A r \in C : v <= r.miny,
                        CHOOSE v \in {r.maxx : r \in C} : \A r \in C : v >= r.maxx,
                        CHOOSE v \in {r.maxy : r \in C} : \A r \in C : v >= r.maxy)
        merged == {hull(C) : C \in runs}
    IN  CHOOSE s \in [1..Cardinality(merged) -> merged] :
            /\ Range(s) = merged
            /\ \A i, j \in DOMAIN s :
                  i < j => \/ s[i].miny < s[j].miny
                           \/ s[i].miny = s[j].miny /\ s[i].minx < s[j].minx

\* Lines 290-303: new_polygons and new_multi_permit after the first n groups.
\* First a variant that merges the polygons and keeps the multi-permit
\* entries under the indices they had.
RECURSIVE MergeGroupsKeepingIndices(_, _, _)
MergeGroupsKeepingIndices(zone, keys, n) ==
    IF n = 0 THEN RPPZone(zone.area_code, <<>>, zone.multi_permit_polygons)
    ELSE LET before == MergeGroupsKeepingIndices(zone, keys, n - 1)
             sig == keys[n]
             merged == _merge_polygon_group(
                           {zone.polygon[q] : q \in {q \in DOMAIN zone.polygon :
                                                         Signature(zone, q) = sig}})
         IN  RPPZone(zone.area_code, before.polygon \o merged,
                     zone.multi_permit_polygons)

RECURSIVE MergeGroups(_, _, _)
MergeGroups(zone, keys, n) ==
    IF n = 0 THEN RPPZone(zone.area_code, <<>>, <<>>)
    ELSE LET before == MergeGroups(zone, keys, n - 1)
             sig == keys[n]
             merged == _merge_polygon_group(
                           {zone.polygon[q] : q \in {q \in DOMAIN zone.polygon :
                                                         Signature(zone, q) = sig}})
             new_polygons == before.polygon \o merged
         IN  RPPZone(zone.area_code, new_polygons,
                     [q \in DOMAIN before.multi_permit_polygons
                            \cup (IF Len(sig) > 1
                                    THEN Len(before.polygon) + 1..Len(new_polygons)
                                    ELSE {}) |->
                         IF q \in DOMAIN before.multi_permit_polygons
                           THEN before.multi_permit_polygons[q] ELSE sig])

\* Lines 263-319.
_merge_same_zone_polygons(zs) ==
    [z \in DOMAIN zs |->
        MergeGroups(zs[z], GroupKeys(zs[z], Len(zs[z].polygon)),
                    Len(GroupKeys(zs[z], Len(zs[z].polygon))))]

\* Lines 693-720: the coordinate pairs of a geometry, flattened.
_extract_coords_from_geom(geom) == geom.coordinates

\* Lines 615-633: areas after the first k steps of the two loops, three
\* field values to a record; the points of a record are added once for
\* every field that names the area.
RECURSIVE CollectPoints(_, _)
CollectPoints(records, k) ==
    IF k = 0 THEN <<>>
    ELSE LET before == CollectPoints(records, k - 1)
             record == records[((k - 1) \div 3) + 1]
             rpp_area == record.values[((k - 1) % 3) + 1]
             area_code == AreaCode(rpp_area)
             coords == IF record.geometry # NoGeometry
                         THEN _extract_coords_from_geom(record.geometry) ELSE <<>>
         IN  IF rpp_area \in {None, ""} \/ area_code = "" THEN before
             ELSE [c \in DOMAIN before \cup {area_code} |->
                      IF c = area_code
                        THEN (IF c \in DOMAIN before THEN before[c] ELSE <<>>) \o coords
                        ELSE before[c]]

\* Lines 655-691: None (EmptyGeometry) without scipy, for fewer than three
\* unique points, and when ConvexHull raises, as it does for points on one
\* line; otherwise the hull, written as the set of points it spans.
_create_convex_hull(coords) ==
    LET unique_coords == Range(coords)
        on_one_line == \A p, q, r \in unique_coords :
                          (q[1] - p[1]) * (r[2] - p[2]) = (q[2] - p[2]) * (r[1] - p[1])
    IN  IF ~SCIPY_AVAILABLE \/ Len(coords) < 3 \/ Cardinality(unique_coords) < 3
             \/ on_one_line
          THEN EmptyGeometry
          ELSE [hull_of |-> unique_coords]

\* Lines 638-644: an area without points or without a hull gets no zone.
AreaSkipped(collected, area_code) ==
    \/ collected[area_code] = <<>>
    \/ _create_convex_hull(collected[area_code]) = EmptyGeometry

HullZonesOf(collected) ==
    LET kept == {c \in DOMAIN collected : ~AreaSkipped(collected, c)}
        codes == sorted(kept)
    IN  [z \in DOMAIN codes |->
            RPPZone(codes[z], <<_create_convex_hull(collected[codes[z]])>>, <<>>)]

----------------------------------------------------------------------------
(* The zone deriver as a process.                                           *)

InitDerive ==
    /\ features = <<>>
    /\ sources = <<>>
    /\ bounds_filter = FALSE
    /\ tree_order = <<>>
    /\ RunStart
    /\ SimpleIdle
    /\ SideIdle
    /\ OtherIdle
    /\ ExtractIdle
    /\ SHAPELY_AVAILABLE \in BOOLEAN
    /\ SCIPY_AVAILABLE \in BOOLEAN
    /\ raw_blockfaces \in SeqsUpTo(RawCatalogue, MaxRawBlockfaces)
    /\ areas_polygons = <<>>
    /\ areas = <<>>
    /\ zones = <<>>
    /\ pair_idx = 1
    /\ modified = <<>>
    /\ zpc = "collect"
    /\ split_run = 1
    /\ last_split = NoSplit
    /\ split_results = <<>>

\* Lines 164-203: the loop over the records.
CollectBlockfaces ==
    /\ zpc = "collect"
    /\ SHAPELY_AVAILABLE
    /\ areas_polygons' = CollectPolygons(raw_blockfaces, Len(raw_blockfaces))
    /\ zpc' = "create"
    /\ UNCHANGED <<inputVars, sideVars, otherVars, runVars, simpleVars, extractVars, zones, pair_idx,
                   modified, split_run, last_split, split_results, areas>>

\* Lines 208-230.
CreateZones ==
    /\ zpc = "create"
    /\ zones' = ZonesOf(areas_polygons)
    /\ zpc' = "merge"
    /\ UNCHANGED <<inputVars, sideVars, otherVars, runVars, simpleVars, extractVars, pair_idx,
                   modified, split_run, last_split, split_results, collectVars>>

\* Lines 236 and 257: the first step of the cleanup; the split follows.
MergeZones ==
    /\ zpc = "merge"
    /\ zones' = _merge_same_zone_polygons(zones)
    /\ zpc' = "pairs"
    /\ UNCHANGED <<inputVars, sideVars, otherVars, runVars, simpleVars, extractVars, pair_idx,
                   modified, split_run, last_split, split_results, collectVars>>

\* Lines 148-150 and 615-633: without shapely, the points of every area.
HullCollect ==
    /\ zpc = "collect"
    /\ ~SHAPELY_AVAILABLE
    /\ areas' = CollectPoints(raw_blockfaces, 3 * Len(raw_blockfaces))
    /\ zpc' = "hull"
    /\ UNCHANGED <<inputVars, sideVars, otherVars, runVars, simpleVars, extractVars, zones, pair_idx,
                   modified, split_run, last_split, split_results, areas_polygons>>

\* Lines 635-653: the zones of the hull method are returned as they are.
HullZones ==
    /\ zpc = "hull"
    /\ zones' = HullZonesOf(areas)
    /\ zpc' = "done"
    /\ UNCHANGED <<inputVars, sideVars, otherVars, runVars, simpleVars, extractVars, pair_idx,
                   modified, split_run, last_split, split_results, collectVars>>

NextDerive ==
    \/ CollectBlockfaces
    \/ CreateZones
    \/ MergeZones
    \/ SplitPair
    \/ ApplyModifications
    \/ HullCollect
    \/ HullZones

SpecDerive == InitDerive /\ [][NextDerive]_vars

\* The zones derive_zones_from_blockface returns, once it has returned.
final_zones ==
    IF zpc # "done" THEN <<>>
    ELSE IF SHAPELY_AVAILABLE THEN split_results[1].result
    ELSE zones

----------------------------------------------------------------------------
(* Properties of the zone deriver.                                          *)

\* The distinct permit codes a record names.
CodesOf(record) ==
    {AreaCode(v) : v \in Range(record.values) \ {None, ""}} \ {""}

\* The buffered polygon of a record's geometry, EmptyGeometry if it has none.
BufferOf(record) ==
    IF record.geometry = NoGeometry THEN EmptyGeometry
    ELSE _buffer_geometry_to_polygon(record.geometry, ZONE_BUFFER_DISTANCE)

\* The records with a bufferable geometry that name the code c.
Contributors(c) ==
    {n \in DOMAIN raw_blockfaces :
        /\ c \in CodesOf(raw_blockfaces[n])
        /\ BufferOf(raw_blockfaces[n]) # EmptyGeometry}

\* C15: after the collect step every blockface with k >= 1 distinct permit
\* codes and a bufferable geometry has put exactly one polygon, its buffer,
\* into the list of each of its k areas, with the sorted list of all its
\* codes; and the zones created from the lists flag exactly the polygons
\* of blockfaces with k >= 2 as multi-permit, with that full list.
C15_OnePolygonPerZone ==
    (SHAPELY_AVAILABLE /\ zpc \in {"create", "merge"}) =>
        /\ DOMAIN areas_polygons = {c \in {"A", "B"} : Contributors(c) # {}}
        /\ \A c \in DOMAIN areas_polygons :
              /\ Len(areas_polygons[c]) = Cardinality(Contributors(c))
              /\ \A n \in Contributors(c) :
                    LET entry == areas_polygons[c][Cardinality({m \in Contributors(c) : m <= n})]
                    IN  /\ entry.polygon = BufferOf(raw_blockfaces[n])
                        /\ entry.all_areas = sorted(CodesOf(raw_blockfaces[n]))
        /\ zpc = "merge" =>
              /\ {zones[z].area_code : z \in DOMAIN zones} = DOMAIN areas_polygons
              /\ \A z \in DOMAIN zones :
                    LET polygon_data == areas_polygons[zones[z].area_code]
                    IN  /\ Len(zones[z].polygon) = Len(polygon_data)
                        /\ \A q \in DOMAIN polygon_data :
                              /\ zones[z].polygon[q] = polygon_data[q].polygon
                              /\ IF Len(polygon_data[q].all_areas) >= 2
                                   THEN /\ q \in DOMAIN zones[z].multi_permit_polygons
                                        /\ zones[z].multi_permit_polygons[q]
                                             = polygon_data[q].all_areas
                                   ELSE q \notin DOMAIN zones[z].multi_permit_polygons

\* The zones have been created from a blockface that names two codes, lower
\* case and in descending order, beside a blockface of one code.
C15_Witness ==
    /\ SHAPELY_AVAILABLE
    /\ zpc = "merge"
    /\ Len(zones) = 2
    /\ \E n, m \in DOMAIN raw_blockfaces :
          /\ raw_blockfaces[n].values = <<"b ", "a", None>>
          /\ n \in Contributors("A") \cap Contributors("B")
          /\ Cardinality(CodesOf(raw_blockfaces[m])) = 1
          /\ m \in Contributors("A") \cup Contributors("B")

\* The multi-permit rings of the zones zs are shared: a ring a zone lists
\* with the code list L lies, as the same region and with the same list, in
\* every other zone of L.
SharedRings(zs) ==
    \A z \in DOMAIN zs : \A i \in DOMAIN zs[z].multi_permit_polygons :
        LET L == zs[z].multi_permit_polygons[i]
        IN  \A c \in Range(L) \ {zs[z].area_code} :
                \E y \in DOMAIN zs :
                    /\ zs[y].area_code = c
                    /\ \E j \in DOMAIN zs[y].multi_permit_polygons :
                          /\ zs[y].multi_permit_polygons[j] = L
                          /\ zs[y].polygon[j] = zs[z].polygon[i]

\* C16: in the zones the deriver returns, every multi-permit ring is shared
\* by all the zones of its code list.
C16_SharedMultiPermitRings == SharedRings(final_zones)

\* The areas some record gives coordinates for.
AreasWithCoordinates ==
    UNION {CodesOf(raw_blockfaces[n]) :
              n \in {n \in DOMAIN raw_blockfaces :
                        raw_blockfaces[n].geometry.coordinates # <<>>}}

\* C14: every area that has coordinates gets a boundary in the zones
\* returned, from the buffer, else from the hull, else from the bounding
\* box: also an area whose convex hull is None.
C14_EveryAreaGetsBoundary ==
    zpc = "done" =>
        \A c \in AreasWithCoordinates :
            \E z \in DOMAIN final_zones :
                /\ final_zones[z].area_code = c
                /\ final_zones[z].polygon # <<>>

----------------------------------------------------------------------------
(* Properties of the third pass and of the frame of the matching.           *)

\* The street hints of the regulations attached to blockface b, in the
\* order the matching appended them: records 1..i, each with the
\* regulations extracted from it.
RECURSIVE HintsOf(_, _)
HintsOf(b, i) ==
    IF i = 0 THEN <<>>
    ELSE LET regs == extract_regulation_from_props(all_regulations[i].props)
             given == {j \in DOMAIN regs : regs[j]._sourceStreet \notin {Absent, None, ""}}
         IN  IF b \in attached[i] /\ given # {}
               THEN Append(HintsOf(b, i - 1),
                           regs[CHOOSE j \in given : \A h \in given : j <= h]._sourceStreet)
               ELSE HintsOf(b, i - 1)

\* C17: the emitted street is the parsed street, unless that is "Unknown
\* Street" and an attached regulation carries a street hint; then it is the
\* normalized first hint in list order.  No emitted regulation holds the
\* hint field.
C17_StreetBackfill ==
    pc = "done" =>
        \A b \in DOMAIN blockfaces :
            LET parsed == blockface_objects[b].street_info.street
                hints == HintsOf(b, Len(all_regulations))
            IN  /\ blockfaces[b].street =
                      IF parsed = UnknownStreet /\ hints # <<>>
                        THEN <<normalize_street_name(hints[1])>>
                        ELSE parsed
                /\ \A j \in DOMAIN blockfaces[b].regulations :
                      blockfaces[b].regulations[j]._sourceStreet = Absent

\* A blockface without a parsed street got the first of two different
\* hints, in its normalized form.
C17_Witness ==
    /\ pc = "done"
    /\ \E b \in DOMAIN blockfaces :
          LET hints == HintsOf(b, Len(all_regulations))
          IN  /\ blockface_objects[b].street_info.street = UnknownStreet
              /\ Len(hints) = 2
              /\ hints[1] # hints[2]
              /\ blockfaces[b].street # <<hints[1]>>
              /\ blockfaces[b].street # UnknownStreet

\* C18: a step of the matching leaves the number of blockfaces and every
\* blockface's id, side, geometry and parsed street as the first pass made
\* them; it changes at most one blockface, and that one only by appending
\* to its own list of regulations.
C18_MatchingFrame ==
    [][(pc = "match" /\ pc' = "match") =>
          /\ DOMAIN blockface_objects' = DOMAIN blockface_objects
          /\ \A b \in DOMAIN blockface_objects :
                LET before == blockface_objects[b]
                    after == blockface_objects'[b]
                IN  /\ after.id = before.id
                    /\ after.side = before.side
                    /\ after.geometry = before.geometry
                    /\ after.street_info = before.street_info
                    /\ Len(after.regulations) >= Len(before.regulations)
                    /\ SubSeq(after.regulations, 1, Len(before.regulations))
                         = before.regulations
          /\ Cardinality({b \in DOMAIN blockface_objects :
                             blockface_objects'[b] # blockface_objects[b]}) <= 1]_vars

\* The matching has appended the regulations of a second record to a
\* blockface that held those of a first one, beside another blockface.
C18_Witness ==
    /\ pc = "match"
    /\ Len(blockface_objects) = 2
    /\ \E b \in DOMAIN blockface_objects :
          /\ Cardinality({i \in DOMAIN attached : b \in attached[i]}) = 2
          /\ Len(blockface_objects[b].regulations) >= 2

----------------------------------------------------------------------------
(* Properties of the popup parsing.                                         *)

\* "{street} between {from} and {to}, west side", in any letter case of the
\* side phrase.
WestSidePopup(popupinfo) ==
    /\ Len(popupinfo) = 7
    /\ popupinfo[2] = " between "
    /\ popupinfo[4] = " and "
    /\ popupinfo[6] = ", "
    /\ LowerToken(popupinfo[7]) = "west side"

\* The popup of the feature an emitted blockface was made from.
PopupOf(blockface) == features[blockface.id + 1].popupinfo

PartsTaken(blockface) ==
    /\ blockface.street = <<PopupOf(blockface)[1]>>
    /\ blockface.fromStreet = <<PopupOf(blockface)[3]>>
    /\ blockface.toStreet = <<PopupOf(blockface)[5]>>

\* C19: a blockface with a popup of the west-side form is emitted with side
\* EVEN and with street, fromStreet and toStreet taken from the parts of
\* the string.
C19_WestSideIsEven ==
    pc = "done" =>
        \A b \in DOMAIN blockfaces :
            WestSidePopup(PopupOf(blockfaces[b])) =>
                /\ PartsTaken(blockfaces[b])
                /\ blockfaces[b].side = "EVEN"

----------------------------------------------------------------------------
(* determine_side_of_line applied to one centerline and one test line.      *)

\* Centerlines from 0.00002 to 0.002 degrees long, along x and along y.
Centerlines ==
    UNION { {Line(1000, 1000, 1000 + len, 1000), Line(1000, 1000, 1000, 1000 + len)} :
              len \in {20, 100, 200, 1000, 2000} }

\* Test lines with their midpoint beside the start of the centerline, on
\* either side of it, near and far, and on it.
TestLines ==
    { Line(1000 + d - 10, 1000 + d, 1000 + d + 10, 1000 + d) :
        d \in {-2000, -600, -10, 0, 10, 600, 2000} }

InitSide ==
    /\ features = <<>>
    /\ sources = <<>>
    /\ bounds_filter = FALSE
    /\ tree_order = <<>>
    /\ RunStart
    /\ SimpleIdle
    /\ ExtractIdle
    /\ ZoneIdle
    /\ OtherIdle
    /\ side_centerline \in Centerlines
    /\ side_test_line \in TestLines
    /\ side_offset = NoneInt
    /\ side_of_line = None

\* Lines 584-650: the call; offset is the local of line 611.
SideOfLine ==
    /\ side_of_line = None
    /\ side_offset' = TangentOffset(Length(side_centerline))
    /\ side_of_line' = determine_side_of_line(side_centerline, side_test_line)
    /\ UNCHANGED <<inputVars, runVars, simpleVars, extractVars, zoneVars, otherVars>>

NextSide == SideOfLine

SpecSide == InitSide /\ [][NextSide]_vars

\* C20: the tangent offset is never smaller than the fixed minimum of line
\* 611, however short the centerline is; above it, it is 5% of the length.
C20_OffsetBoundedBelow ==
    side_offset # NoneInt =>
        /\ side_offset >= MaxTangentOffset
        /\ side_offset = Max(Length(side_centerline) \div TangentDivisor,
                             MaxTangentOffset)

----------------------------------------------------------------------------
(* Properties of the field normalizer.                                      *)

\* The zone codes a properties dictionary holds in rpparea1..3, whatever the
\* field, the letter case and the number of times they are given.
ZoneCodeSet(props) ==
    {AreaCode(v) : v \in {props.rpparea1, props.rpparea2, props.rpparea3}}
        \ {Absent, None, ""}

\* C21: the permitZones list of an extracted regulation depends only on the
\* set of zone codes of the record: every record that holds the same codes,
\* in another field order, letter case or with repeats, gives the same list.
C21_PermitZonesNormalized ==
    \A k \in DOMAIN ex_out :
        ex_out[k].permitZones # NoneList =>
            \A other \in ExtractInputs :
                ZoneCodeSet(other) = ZoneCodeSet(ex_props) =>
                    PermitZonesOf(other) = ex_out[k].permitZones

\* The words of a lower-cased regulation category.
WordsOf(text) ==
    CASE text = "pay or permit" -> <<"pay", "or", "permit">>
      [] text = "time limited" -> <<"time", "limited">>
      [] text = "residential permit" -> <<"residential", "permit">>
      [] text = "residential permit area" -> <<"residential", "permit", "area">>
      [] text = "street cleaning" -> <<"street", "cleaning">>
      [] text = "street sweeping" -> <<"street", "sweeping">>
      [] text = "rpp" -> <<"rpp">>
      [] text = "parking" -> <<"parking">>
      [] OTHER -> <<>>

\* phrase in text.lower()
ContainsPhrase(text, phrase) ==
    LET words == WordsOf(Lower(text))
        sought == WordsOf(phrase)
    IN  \E i \in 1..Len(words) :
            /\ i + Len(sought) - 1 <= Len(words)
            /\ SubSeq(words, i, i + Len(sought) - 1) = sought

\* The phrases the type mapping is described by, with their types.
PhraseRules ==
    { <<"street cleaning", "streetCleaning">>, <<"street sweeping", "streetCleaning">>,
      <<"residential permit", "residentialPermit">>, <<"rpp", "residentialPermit">> }

RegulationTypes ==
    {"timeLimit", "residentialPermit", "noParking", "streetCleaning", "metered",
     "towAway", "loadingZone", "other"}

\* C22: a record that is extracted into one entry gets the type of the rule
\* whose phrase its category contains, in any letter case, the type other
\* when it contains none of the phrases the mapping knows, and always a type
\* of the enum.
C22_TypeBySubstring ==
    LET raw == IF IsSet(ex_props.regulation) THEN ex_props.regulation ELSE ""
    IN  Len(ex_out) = 1 =>
            /\ \A rule \in PhraseRules :
                   ContainsPhrase(raw, rule[1]) => ex_out[1].type = rule[2]
            /\ ex_out[1].type \in RegulationTypes

----------------------------------------------------------------------------
(* parse_time_to_format applied to one clock string.                        *)

MaxClockDigits == 4

DigitStrings == UNION {[1..n -> 0..9] : n \in 1..MaxClockDigits}

\* The decimal digits of a natural number.
RECURSIVE DigitsOf(_)
DigitsOf(n) == IF n < 10 THEN <<n>> ELSE Append(DigitsOf(n \div 10), n % 10)

\* The format specification 02d: at least two digits, zero-padded.
Format02d(n) == IF n < 10 THEN <<0, n>> ELSE DigitsOf(n)

\* Line 257: f"{hours:02d}:{minutes:02d}" of the pair <<hours, minutes>>.
TimeString(t) == Format02d(t[1]) \o <<":">> \o Format02d(t[2])

InitTime ==
    /\ CoreIdle
    /\ ValidIdle /\ EtlIdle /\ FetchIdle /\ SchedIdle
    /\ clock_str \in DigitStrings
    /\ clock_out = <<>>

\* Lines 228-259: the call; a non-empty digit string never gives None.
ParseTime ==
    /\ clock_out = <<>>
    /\ clock_out' = TimeString(parse_time_to_format(clock_str))
    /\ UNCHANGED <<coreVars, clock_str, validVars, etlVars, fetchVars, schedVars>>

NextTime == ParseTime

SpecTime == InitTime /\ [][NextTime]_vars

\* The hour and the minute a clock string of three or four digits names.
ClockHour == DigitsToInt(SubSeq(clock_str, 1, Len(clock_str) - 2))
ClockMinute == DigitsToInt(SubSeq(clock_str, Len(clock_str) - 1, Len(clock_str)))

IsClockString ==
    /\ Len(clock_str) \in {3, 4}
    /\ ClockHour \in 0..24
    /\ ClockMinute \in 0..59

\* C23: a clock string of three or four digits is converted to five
\* characters HH:MM, both numbers zero-padded to two digits, the minutes
\* those of the input and the hour that of the input, in 00..23, with the
\* hour 24 given as 00.
C23_ClockToHHMM ==
    (clock_out # <<>> /\ IsClockString) =>
        LET hour == IF ClockHour = 24 THEN 0 ELSE ClockHour
        IN  /\ hour \in 0..23
            /\ clock_out = <<hour \div 10, hour % 10, ":",
                             ClockMinute \div 10, ClockMinute % 10>>

C23_Witness ==
    /\ clock_str = <<2, 4, 3, 0>>
    /\ clock_out = <<0, 0, ":", 3, 0>>

----------------------------------------------------------------------------
(* extract_regulation_from_props applied to one properties dictionary.      *)

\* Records of the three source files, each with and without the marker of
\* the metered loader and the fields of a sweeping schedule.
DispatchInputs ==
    { [base EXCEPT !._is_metered = marker, !.weekday = weekday,
                   !.fromhour = fromhour, !.tohour = tohour] :
        base \in {NoProps, RegProps("Pay or Permit", 2, "Q", Absent),
                  RegProps("Time limited", 1, Absent, Absent),
                  SweepProps("Tues", "A St")},
        marker \in BOOLEAN,
        weekday \in {Absent, "Tues", "Holiday"},
        fromhour \in {NoneInt, 0, 6},
        tohour \in {NoneInt, 8} }

InitDispatch ==
    /\ features = <<>>
    /\ sources = <<>>
    /\ bounds_filter = FALSE
    /\ tree_order = <<>>
    /\ RunStart
    /\ SimpleIdle
    /\ SideIdle
    /\ OtherIdle
    /\ ZoneIdle
    /\ ex_props \in DispatchInputs
    /\ ex_out = <<>>

\* Lines 728-745: the call (no extraction returns an empty list).
Dispatch ==
    /\ ex_out = <<>>
    /\ ex_out' = extract_regulation_from_props(ex_props)
    /\ UNCHANGED <<inputVars, sideVars, otherVars, runVars, simpleVars, ex_props, zoneVars>>

NextDispatch == Dispatch

SpecDispatch == InitDispatch /\ [][NextDispatch]_vars

HasMeteredMarker(props) == props._is_metered

HasSweepingFields(props) == props.weekday # Absent /\ props.fromhour # NoneInt

----------------------------------------------------------------------------
(* The validator: backend/validators/data_validator.py.                     *)
(*                                                                          *)
(* A bundle is the set of its keys, the list under "zones" and the list     *)
(* under "meters"; a key that is not set leaves the default of data.get.    *)
(* A zone holds its code ("" when missing), its polygon, a list of rings of *)
(* coordinates, and its blockCount.  The meter list is held by the numbers  *)
(* of meters inside the bounds, outside them, without coordinates and with  *)
(* an id seen before.  Coordinates are in units of 0.0001 degree.           *)

MaxZones == 2

\* Lines 47-48: MIN_ZONES = 30 and MIN_METERS = 20000, scaled to the lists
\* of the model.
MIN_ZONES == 2
MIN_METERS == 12

\* Lines 39-44: SF_BOUNDS.
SfMinLat == 376398
SfMaxLat == 379298
SfMinLon == -1231738
SfMaxLon == -1222818

\* Lines 32-36, the codes the input uses.
KNOWN_RPP_AREAS == {"A", "B", "Q", "R"}

Message(kind, about, n) == [kind |-> kind, about |-> about, n |-> n]

\* Lines 18-20.
add_error(result, message) ==
    [result EXCEPT !.errors = Append(@, message), !.is_valid = FALSE]

\* Lines 22-23.
\* First a variant that invalidates the result as add_error does.
add_warning_invalidating(result, message) ==
    [result EXCEPT !.warnings = Append(@, message), !.is_valid = FALSE]

add_warning(result, message) ==
    [result EXCEPT !.warnings = Append(@, message)]

\* Lines 206-211.
_is_in_sf_bounds(lat, lon) ==
    /\ SfMinLat <= lat /\ lat <= SfMaxLat
    /\ SfMinLon <= lon /\ lon <= SfMaxLon

\* Lines 134-142: the coordinates of one ring, up to the first that is
\* not a pair.
RECURSIVE ValidateRing(_, _, _, _)
ValidateRing(code, ring, j, result) ==
    IF j > Len(ring) THEN result
    ELSE IF Len(ring[j]) # 2
      THEN add_error(result, Message("invalid coordinate format", code, 0))
    ELSE ValidateRing(code, ring, j + 1,
             IF ~_is_in_sf_bounds(ring[j][2], ring[j][1])
               THEN add_warning(result, Message("coordinate outside SF bounds", code, 0))
               ELSE result)

\* Line 133.
RECURSIVE ValidateRings(_, _, _, _)
ValidateRings(code, polygon, r, result) ==
    IF r > Len(polygon) THEN result
    ELSE ValidateRings(code, polygon, r + 1, ValidateRing(code, polygon[r], 1, result))

\* Lines 111-142: the loop over the zones from position i on.
RECURSIVE ValidateZonesFrom(_, _, _, _)
ValidateZonesFrom(zone_list, i, result, seen_codes) ==
    IF i > Len(zone_list) THEN result
    ELSE LET zone == zone_list[i]
             code == zone.code
             after_duplicate ==
                 IF code \in seen_codes
                   THEN add_warning(result, Message("Duplicate zone code", code, 0))
                   ELSE result
             after_format ==
                 IF code \notin KNOWN_RPP_AREAS
                   THEN add_warning(after_duplicate,
                                    Message("Unknown RPP area code", code, 0))
                   ELSE after_duplicate
             after_polygon ==
                 IF zone.polygon = <<>>
                   THEN add_error(after_format,
                                  Message("missing polygon geometry", code, 0))
                   ELSE ValidateRings(code, zone.polygon, 1, after_format)
         IN  IF code = ""
               THEN ValidateZonesFrom(zone_list, i + 1,
                        add_error(result, Message("missing 'code' field", "", i - 1)),
                        seen_codes)
               ELSE ValidateZonesFrom(zone_list, i + 1, after_polygon,
                                      seen_codes \cup {code})

\* Lines 100-144.
_validate_zones(zone_list) ==
    ValidateZonesFrom(zone_list, 1,
        IF Len(zone_list) < MIN_ZONES
          THEN add_warning(NewResult, Message("Low zone count", "", Len(zone_list)))
          ELSE NewResult,
        {})

MeterCount(meter_list) == meter_list.inside + meter_list.outside + meter_list.invalid

RECURSIVE DuplicateMeterWarnings(_, _)
DuplicateMeterWarnings(result, n) ==
    IF n = 0 THEN result
    ELSE DuplicateMeterWarnings(
             add_warning(result, Message("Duplicate meter ID", "", 0)), n - 1)

\* Lines 146-189.
_validate_meters(meter_list) ==
    LET low == IF MeterCount(meter_list) < MIN_METERS
                 THEN add_warning(NewResult,
                          Message("Low meter count", "", MeterCount(meter_list)))
                 ELSE NewResult
        looped == DuplicateMeterWarnings(low, meter_list.duplicates)
        invalid_coords == meter_list.invalid
        outside_bounds == meter_list.outside
        warned1 == IF invalid_coords > 0
                     THEN add_warning(looped,
                              Message("meters with invalid coordinates", "", invalid_coords))
                     ELSE looped
        warned2 == IF outside_bounds > 0
                     THEN add_warning(warned1,
                              Message("meters outside SF bounds", "", outside_bounds))
                     ELSE warned1
    IN  IF 10 * invalid_coords > MeterCount(meter_list)
          THEN add_error(warned2,
                   Message("Too many meters with invalid coordinates", "", invalid_coords))
          ELSE warned2

\* Lines 191-204.
RECURSIVE CrossValidateFrom(_, _, _)
CrossValidateFrom(zone_list, i, result) ==
    IF i > Len(zone_list) THEN result
    ELSE CrossValidateFrom(zone_list, i + 1,
             IF zone_list[i].blockCount = 0
               THEN add_warning(result,
                        Message("has no associated blocks", zone_list[i].code, 0))
               ELSE result)

_cross_validate(data) == CrossValidateFrom(data.zones, 1, NewResult)

\* Lines 57-63.
\* First a variant that reports the first missing field only.
FirstMissingField(data) ==
    IF "version" \notin data.keys
      THEN add_error(NewResult, Message("Missing field", "version", 0))
    ELSE IF "zones" \notin data.keys
      THEN add_error(NewResult, Message("Missing field", "zones", 0))
    ELSE IF "meters" \notin data.keys
      THEN add_error(NewResult, Message("Missing field", "meters", 0))
    ELSE NewResult

RequiredFields(data) ==
    LET r1 == IF "version" \notin data.keys
                THEN add_error(NewResult, Message("Missing field", "version", 0))
                ELSE NewResult
        r2 == IF "zones" \notin data.keys
                THEN add_error(r1, Message("Missing field", "zones", 0))
                ELSE r1
    IN  IF "meters" \notin data.keys
          THEN add_error(r2, Message("Missing field", "meters", 0))
          ELSE r2

\* Lines 51-98.
validate_app_data(data) ==
    LET result == RequiredFields(data)
        zones_result == _validate_zones(data.zones)
        meters_result == _validate_meters(data.meters)
        cross_result == _cross_validate(data)
    IN  IF ~result.is_valid THEN result
        ELSE [is_valid |-> zones_result.is_valid /\ meters_result.is_valid,
              errors |-> result.errors \o zones_result.errors \o meters_result.errors,
              warnings |-> result.warnings \o zones_result.warnings
                             \o meters_result.warnings \o cross_result.warnings,
              stats |-> <<Len(data.zones), MeterCount(data.meters)>>]

\* Coordinates (lon, lat): in San Francisco, in New York, and a triple.
InsideCoord == <<-1224000, 377000>>
OutsideCoord == <<-740000, 400000>>
TripleCoord == <<-1224000, 377000, 0>>

Zone(code, polygon, blockCount) ==
    [code |-> code, polygon |-> polygon, blockCount |-> blockCount]

ZoneBundle ==
    { Zone("A", <<<<InsideCoord, InsideCoord>>>>, 10),
      Zone("A", <<<<InsideCoord, OutsideCoord>>>>, 10),
      Zone("B", <<<<InsideCoord>>, <<TripleCoord, OutsideCoord>>>>, 10),
      Zone("A", <<>>, 10),
      Zone("", <<<<InsideCoord>>>>, 10),
      Zone("ZZZ", <<<<InsideCoord>>>>, 10),
      Zone("B", <<<<InsideCoord>>>>, 0) }

MeterBundle ==
    { [inside |-> i, outside |-> o, invalid |-> v, duplicates |-> d] :
        i \in {0, 11}, o \in {0, 1}, v \in {0, 1}, d \in {0, 1} }

\* A key that is not set leaves nothing to read under it.
Bundles ==
    { [keys |-> k,
       zones |-> IF "zones" \in k THEN z ELSE <<>>,
       meters |-> IF "meters" \in k THEN m ELSE NoMeters] :
        k \in SUBSET {"version", "zones", "meters"},
        z \in {<<>>} \cup SeqsUpTo(ZoneBundle, MaxZones),
        m \in {b \in MeterBundle : b.duplicates < MeterCount(b) \/ b.duplicates = 0} }

InitValidate ==
    /\ CoreIdle
    /\ TimeIdle /\ EtlIdle /\ FetchIdle /\ SchedIdle
    /\ app_data \in Bundles
    /\ valid_pc = "called"
    /\ validation = NewResult

Validate ==
    /\ valid_pc = "called"
    /\ validation' = validate_app_data(app_data)
    /\ valid_pc' = "returned"
    /\ UNCHANGED <<coreVars, timeVars, app_data, etlVars, fetchVars, schedVars>>

NextValidate == Validate

SpecValidate == InitValidate /\ [][NextValidate]_vars

RequiredKeys == {"version", "zones", "meters"}

\* C25: the result for a bundle without one of the three required fields is
\* invalid, and its errors name every field that is missing.
C25_MissingFieldsReported ==
    (valid_pc = "returned" /\ ~(RequiredKeys \subseteq app_data.keys)) =>
        /\ validation.is_valid = FALSE
        /\ \A f \in RequiredKeys \ app_data.keys :
               \E e \in DOMAIN validation.errors :
                   /\ validation.errors[e].kind = "Missing field"
                   /\ validation.errors[e].about = f

C25_Witness ==
    /\ valid_pc = "returned"
    /\ app_data.keys = {"meters"}
    /\ Len(validation.errors) = 2
    /\ validation.is_valid = FALSE

\* A warning of the kind, about the zone code, is in the result.
Warned(kind, about) ==
    \E w \in DOMAIN validation.warnings :
        /\ validation.warnings[w].kind = kind
        /\ validation.warnings[w].about = about

\* The conditions that only warn, as the bundle shows them.  A zone without
\* code is not looked at further, and a ring is read up to its first
\* coordinate that is not a pair.
DuplicateCodes ==
    {app_data.zones[j].code : j \in {k \in DOMAIN app_data.zones :
        /\ app_data.zones[k].code # ""
        /\ \E i \in 1..(k - 1) : app_data.zones[i].code = app_data.zones[k].code}}

UnknownCodes ==
    {app_data.zones[i].code : i \in DOMAIN app_data.zones} \ (KNOWN_RPP_AREAS \cup {""})

CodesOutsideBounds ==
    {app_data.zones[i].code : i \in {k \in DOMAIN app_data.zones :
        /\ app_data.zones[k].code # ""
        /\ \E r \in DOMAIN app_data.zones[k].polygon :
             LET ring == app_data.zones[k].polygon[r]
             IN  \E j \in DOMAIN ring :
                     /\ \A before \in 1..j : Len(ring[before]) = 2
                     /\ ~_is_in_sf_bounds(ring[j][2], ring[j][1])}}

WarnOnlyKinds ==
    {"Low zone count", "Low meter count", "Duplicate zone code",
     "Unknown RPP area code", "coordinate outside SF bounds",
     "meters outside SF bounds"}

\* C26: the result is invalid exactly when its errors list is not empty;
\* a low zone or meter count, a duplicate zone code, an unknown area code
\* and a coordinate outside the bounds each put a warning into the result
\* of a bundle that has its required fields, and never an error.
C26_InvalidIffErrors ==
    valid_pc = "returned" =>
        /\ (validation.is_valid = FALSE) <=> (validation.errors # <<>>)
        /\ \A e \in DOMAIN validation.errors :
               validation.errors[e].kind \notin WarnOnlyKinds
        /\ RequiredKeys \subseteq app_data.keys =>
             /\ Len(app_data.zones) < MIN_ZONES => Warned("Low zone count", "")
             /\ MeterCount(app_data.meters) < MIN_METERS => Warned("Low meter count", "")
             /\ \A c \in DuplicateCodes : Warned("Duplicate zone code", c)
             /\ \A c \in UnknownCodes : Warned("Unknown RPP area code", c)
             /\ \A c \in CodesOutsideBounds : Warned("coordinate outside SF bounds", c)
             /\ app_data.meters.outside > 0 => Warned("meters outside SF bounds", "")

C26_Witness ==
    /\ valid_pc = "returned"
    /\ validation.is_valid = TRUE
    /\ Len(app_data.zones) < MIN_ZONES
    /\ MeterCount(app_data.meters) < MIN_METERS
    /\ CodesOutsideBounds # {}
    /\ app_data.meters.outside > 0
    /\ Len(validation.warnings) >= 4

----------------------------------------------------------------------------
(* The ETL pipeline: backend/pipeline.py, ParkingDataPipeline.run.          *)
(*                                                                          *)
(* A step that can raise either goes on or raises; every exception is       *)
(* caught at lines 160-162 and makes run return False.  The bundle of       *)
(* generate_app_data always has the three required keys.                    *)

GeneratedBundles == {b \in Bundles : RequiredKeys \subseteq b.keys}

\* Lines 289-334: the files of _write_output in the order they are written.
OutputFiles == <<"parking_data", "parking_data_latest", "zones_only">>

\* Lines 92-96: where run goes after the validation.
\* First a variant that goes on to the output whatever the validation said.
write_regardless(result) == "write"

AfterValidation(result) == IF ~result.is_valid THEN "returned" ELSE "write"

InitPipeline ==
    /\ CoreIdle
    /\ TimeIdle /\ ValidIdle /\ FetchIdle /\ SchedIdle
    /\ etl_pc = "fetch"
    /\ etl_written = <<>>
    /\ etl_ios = "not invoked"
    /\ etl_result = None

\* An exception in the try block: lines 160-162.
Failed ==
    /\ etl_pc' = "returned"
    /\ etl_result' = "False"

\* Line 64, _fetch_all_data.
FetchAllData ==
    /\ etl_pc = "fetch"
    /\ \/ etl_pc' = "transform" /\ UNCHANGED etl_result
       \/ Failed
    /\ UNCHANGED <<coreVars, timeVars, validVars, etl_written, etl_ios, fetchVars, schedVars>>

\* Lines 68-76, _transform_data and derive_metered_zones_from_meters.
TransformData ==
    /\ etl_pc = "transform"
    /\ \/ etl_pc' = "generate" /\ UNCHANGED etl_result
       \/ Failed
    /\ UNCHANGED <<coreVars, timeVars, validVars, etl_written, etl_ios, fetchVars, schedVars>>

\* Lines 80-85, generate_app_data.
GenerateAppData ==
    /\ etl_pc = "generate"
    /\ \/ /\ app_data' \in GeneratedBundles
          /\ etl_pc' = "validate"
          /\ UNCHANGED etl_result
       \/ Failed /\ UNCHANGED app_data
    /\ UNCHANGED <<coreVars, timeVars, valid_pc, validation, etl_written, etl_ios,
                   fetchVars, schedVars>>

\* Lines 89-96.
ValidateAppData ==
    /\ etl_pc = "validate"
    /\ validation' = validate_app_data(app_data)
    /\ valid_pc' = "returned"
    /\ etl_pc' = AfterValidation(validation')
    /\ etl_result' = IF etl_pc' = "returned" THEN "False" ELSE etl_result
    /\ UNCHANGED <<coreVars, timeVars, app_data, etl_written, etl_ios, fetchVars, schedVars>>

\* Line 105, _write_output: all the files, or the first of them and then
\* an exception.
WriteOutput ==
    /\ etl_pc = "write"
    /\ \E n \in 0..Len(OutputFiles) :
          /\ etl_written' = SubSeq(OutputFiles, 1, n)
          /\ IF n = Len(OutputFiles)
               THEN etl_pc' = "summary" /\ UNCHANGED etl_result
               ELSE Failed
    /\ UNCHANGED <<coreVars, timeVars, validVars, etl_ios, fetchVars, schedVars>>

\* Lines 107-153: the summaries of the zones written to the log.
LogSummary ==
    /\ etl_pc = "summary"
    /\ \/ etl_pc' = "export" /\ UNCHANGED etl_result
       \/ Failed
    /\ UNCHANGED <<coreVars, timeVars, validVars, etl_written, etl_ios, fetchVars, schedVars>>

\* Lines 156-158 and 336-360: _export_to_ios catches what the export raises.
ExportToIos ==
    /\ etl_pc = "export"
    /\ etl_ios' \in {"exported", "module not found", "failed"}
    /\ etl_pc' = "returned"
    /\ etl_result' = "True"
    /\ UNCHANGED <<coreVars, timeVars, validVars, etl_written, fetchVars, schedVars>>

NextPipeline ==
    \/ FetchAllData
    \/ TransformData
    \/ GenerateAppData
    \/ ValidateAppData
    \/ WriteOutput
    \/ LogSummary
    \/ ExportToIos

SpecPipeline == InitPipeline /\ [][NextPipeline]_vars

Validated == valid_pc = "returned"

\* C27: an output file is written and the iOS export is invoked only after
\* the validation of the bundle returned is_valid = true; a run whose
\* validation found an error returns False, has written nothing and has not
\* invoked the export; and a run that came to the export returns True
\* whether the export worked or failed.
C27_OutputOnlyAfterValidation ==
    /\ (etl_written # <<>> \/ etl_ios # "not invoked" \/ etl_pc \in {"write", "summary", "export"}) =>
           (Validated /\ validation.is_valid)
    /\ (etl_pc = "returned" /\ Validated /\ ~validation.is_valid) =>
           /\ etl_result = "False"
           /\ etl_written = <<>>
           /\ etl_ios = "not invoked"
    /\ (etl_pc = "returned" /\ etl_ios # "not invoked") =>
           /\ etl_result = "True"
           /\ etl_written = OutputFiles

C27_Witness ==
    /\ etl_pc = "returned"
    /\ etl_ios = "failed"
    /\ etl_result = "True"
    /\ validation.warnings # <<>>
    /\ etl_written = OutputFiles

----------------------------------------------------------------------------
(* Properties of the multi-permit index of the zone deriver.                *)

\* Every key of multi_permit_polygons is an index of the zone's polygon
\* list, and its list names at least two codes, the zone's own among them.
ValidMultiPermitIndex(zs) ==
    \A z \in DOMAIN zs :
        \A k \in DOMAIN zs[z].multi_permit_polygons :
            /\ k \in DOMAIN zs[z].polygon
            /\ Cardinality(Range(zs[z].multi_permit_polygons[k])) >= 2
            /\ zs[z].area_code \in Range(zs[z].multi_permit_polygons[k])

----------------------------------------------------------------------------
(* The fetcher: backend/fetchers/base_fetcher.py, fetch_with_retry.         *)
(*                                                                          *)
(* A request returns a response, raises an aiohttp.ClientError (from the    *)
(* connection, from raise_for_status or from response.json) or raises       *)
(* another exception; which, the server and the network decide.             *)

\* config.py, lines 34-35.
MAX_RETRIES == 3
RETRY_DELAY == 5

Responses == {"response 1", "response 2"}
ClientErrors == {"ClientConnectionError", "ClientResponseError", "ContentTypeError"}
OtherErrors == {"TimeoutError", "JSONDecodeError"}

\* Line 55, when no client error was caught.
FailedToFetch == "Exception: Failed to fetch"

InitFetch ==
    /\ CoreIdle
    /\ TimeIdle /\ ValidIdle /\ EtlIdle /\ SchedIdle
    /\ fetch_pc = "request"
    /\ fetch_attempt = 0
    /\ fetch_errors = <<>>
    /\ fetch_requests = 0
    /\ fetch_waits = <<>>
    /\ fetch_outcome = None

\* Line 38: the loop goes on to attempt n, or is left.
LoopTo(n) == IF n < MAX_RETRIES THEN "request" ELSE "exhausted"

\* Lines 39-42: the request of one attempt got its response.
RequestSucceeds ==
    /\ fetch_pc = "request"
    /\ fetch_requests' = fetch_requests + 1
    /\ fetch_outcome' \in Responses
    /\ fetch_pc' = "returned"
    /\ UNCHANGED <<coreVars, timeVars, validVars, etlVars, fetch_attempt, fetch_errors,
                   fetch_waits, schedVars>>

\* Lines 43-49: the request of one attempt raised a client error.
RequestFailsClient ==
    /\ fetch_pc = "request"
    /\ fetch_requests' = fetch_requests + 1
    /\ \E e \in ClientErrors : fetch_errors' = Append(fetch_errors, e)
    /\ fetch_pc' = "sleep"
    /\ UNCHANGED <<coreVars, timeVars, validVars, etlVars, fetch_attempt, fetch_waits,
                   fetch_outcome, schedVars>>

\* Lines 51-53: the request raised another exception, which is raised on.
RequestFailsOther ==
    /\ fetch_pc = "request"
    /\ fetch_requests' = fetch_requests + 1
    /\ fetch_outcome' \in OtherErrors
    /\ fetch_pc' = "raised"
    /\ UNCHANGED <<coreVars, timeVars, validVars, etlVars, fetch_attempt, fetch_errors,
                   fetch_waits, schedVars>>

\* Lines 45 and 50: the wait after a client error, then the next turn of
\* the loop.
Backoff ==
    /\ fetch_pc = "sleep"
    /\ fetch_waits' = Append(fetch_waits,
                             [attempt |-> fetch_attempt,
                              wait_time |-> RETRY_DELAY * (2 ^ fetch_attempt)])
    /\ fetch_attempt' = fetch_attempt + 1
    /\ fetch_pc' = LoopTo(fetch_attempt + 1)
    /\ UNCHANGED <<coreVars, timeVars, validVars, etlVars, fetch_errors, fetch_requests,
                   fetch_outcome, schedVars>>

\* Line 55.
RaiseLastError ==
    /\ fetch_pc = "exhausted"
    /\ fetch_outcome' = IF fetch_errors # <<>> THEN fetch_errors[Len(fetch_errors)]
                        ELSE FailedToFetch
    /\ fetch_pc' = "raised"
    /\ UNCHANGED <<coreVars, timeVars, validVars, etlVars, fetch_attempt, fetch_errors,
                   fetch_requests, fetch_waits, schedVars>>

NextFetch ==
    \/ RequestSucceeds
    \/ RequestFailsClient
    \/ RequestFailsOther
    \/ Backoff
    \/ RaiseLastError

SpecFetch == InitFetch /\ [][NextFetch]_vars

\* C29: at most MAX_RETRIES requests are issued; a response is returned
\* from the first request that succeeds and a non-client exception is
\* raised from the request that raised it, each without a request or a wait
\* after it; when every request failed with a client error the last of
\* these errors is raised; and the k-th wait lasts RETRY_DELAY * 2^k and is
\* followed by another request, so that a call that has ended has slept one
\* wait fewer than it issued requests.
C29_BoundedRetry ==
    /\ fetch_requests <= MAX_RETRIES
    /\ fetch_requests \in {Len(fetch_errors), Len(fetch_errors) + 1}
    /\ \A w \in DOMAIN fetch_waits :
           /\ fetch_waits[w].attempt = w - 1
           /\ fetch_waits[w].wait_time = RETRY_DELAY * (2 ^ (w - 1))
    /\ (fetch_pc = "returned" \/ fetch_outcome \in OtherErrors) =>
           /\ fetch_requests = Len(fetch_errors) + 1
           /\ Len(fetch_waits) = Len(fetch_errors)
    /\ (fetch_pc = "raised" /\ fetch_outcome \notin OtherErrors) =>
           /\ fetch_requests = MAX_RETRIES
           /\ Len(fetch_errors) = MAX_RETRIES
           /\ fetch_outcome = fetch_errors[MAX_RETRIES]
    /\ fetch_pc \in {"returned", "raised"} => Len(fetch_waits) = fetch_requests - 1

----------------------------------------------------------------------------
(* The scheduler: backend/scheduler.py, run_scheduler and signal_handler.   *)
(*                                                                          *)
(* The loop runs in the main thread; a signal handler runs between any two  *)
(* of its steps and while it sleeps or runs the pipeline.  Whether the job  *)
(* is due when run_pending looks is the clock's choice.                     *)

MaxPipelineRuns == 2

\* Line 81: range(60).
ChecksPerMinute == 60

InitScheduler ==
    /\ CoreIdle
    /\ TimeIdle /\ ValidIdle /\ EtlIdle /\ FetchIdle
    /\ sched_pc = "while"
    /\ shutdown_requested = FALSE
    /\ sleep_count = 0
    /\ runs_started = 0
    /\ runs_after_signal = 0
    /\ sleeps_after_signal = 0

\* Lines 22-26: SIGINT or SIGTERM arrives.
signal_handler ==
    /\ sched_pc # "stopped"
    /\ ~shutdown_requested
    /\ shutdown_requested' = TRUE
    /\ UNCHANGED <<coreVars, timeVars, validVars, etlVars, fetchVars, sched_pc,
                   sleep_count, runs_started, runs_after_signal, sleeps_after_signal>>

\* Line 78: the test of the while loop; line 86 when it fails.
WhileTest ==
    /\ sched_pc = "while"
    /\ sched_pc' = IF shutdown_requested THEN "stopped" ELSE "run_pending"
    /\ UNCHANGED <<coreVars, timeVars, validVars, etlVars, fetchVars, shutdown_requested,
                   sleep_count, runs_started, runs_after_signal, sleeps_after_signal>>

\* Line 79, the job being due: run_pending calls run_pipeline_sync.
RunPendingDue ==
    /\ sched_pc = "run_pending"
    /\ runs_started < MaxPipelineRuns
    /\ runs_started' = runs_started + 1
    /\ runs_after_signal' = runs_after_signal + (IF shutdown_requested THEN 1 ELSE 0)
    /\ sched_pc' = "pipeline"
    /\ UNCHANGED <<coreVars, timeVars, validVars, etlVars, fetchVars, shutdown_requested,
                   sleep_count, sleeps_after_signal>>

\* Line 79, no job being due.
RunPendingIdle ==
    /\ sched_pc = "run_pending"
    /\ sleep_count' = 0
    /\ sched_pc' = "for"
    /\ UNCHANGED <<coreVars, timeVars, validVars, etlVars, fetchVars, shutdown_requested,
                   runs_started, runs_after_signal, sleeps_after_signal>>

\* Lines 29-39: run_pipeline_sync returns, whatever the pipeline did.
PipelineReturns ==
    /\ sched_pc = "pipeline"
    /\ sleep_count' = 0
    /\ sched_pc' = "for"
    /\ UNCHANGED <<coreVars, timeVars, validVars, etlVars, fetchVars, shutdown_requested,
                   runs_started, runs_after_signal, sleeps_after_signal>>

\* Lines 81-83: the next turn of the for loop and its test of the flag.
ForTest ==
    /\ sched_pc = "for"
    /\ sched_pc' = IF sleep_count = ChecksPerMinute \/ shutdown_requested
                   THEN "while" ELSE "sleep"
    /\ UNCHANGED <<coreVars, timeVars, validVars, etlVars, fetchVars, shutdown_requested,
                   sleep_count, runs_started, runs_after_signal, sleeps_after_signal>>

\* Line 84: the sleep of one second begins.
SleepBegins ==
    /\ sched_pc = "sleep"
    /\ sched_pc' = "sleeping"
    /\ UNCHANGED <<coreVars, timeVars, validVars, etlVars, fetchVars, shutdown_requested,
                   sleep_count, runs_started, runs_after_signal, sleeps_after_signal>>

\* Line 84: the sleep ends.
SleepEnds ==
    /\ sched_pc = "sleeping"
    /\ sleep_count' = sleep_count + 1
    /\ sleeps_after_signal' = sleeps_after_signal + (IF shutdown_requested THEN 1 ELSE 0)
    /\ sched_pc' = "for"
    /\ UNCHANGED <<coreVars, timeVars, validVars, etlVars, fetchVars, shutdown_requested,
                   runs_started, runs_after_signal>>

NextScheduler ==
    \/ signal_handler
    \/ WhileTest
    \/ RunPendingDue
    \/ RunPendingIdle
    \/ PipelineReturns
    \/ ForTest
    \/ SleepBegins
    \/ SleepEnds

SpecScheduler == InitScheduler /\ [][NextScheduler]_vars

\* C30: no pipeline run is started once the signal handler has set
\* shutdown_requested, and at most one sleep of one second ends after it,
\* wherever in the loop the signal arrived.
C30_GracefulShutdown ==
    /\ runs_after_signal = 0
    /\ sleeps_after_signal <= 1

====
